---- MODULE Spec2Model ----
(***************************************************************************)
(* Model of the rsp template engine (cyanteam/rsp): the HTTP front-end's   *)
(* environment hand-off, RspEngine::render, the compiler driver's cache,   *)
(* the loader's map of open libraries and the thread-local response        *)
(* control of generated artifacts.                                         *)
(*                                                                         *)
(* Threads are the worker threads of the front-end's runtime; each one     *)
(* handles one request at a time through                                   *)
(*   handle_request -> render_file_with_body -> render_file -> render      *)
(*   -> compile / compile_with_options -> Loader::render_with_response.    *)
(* Steps are cut at accesses to shared state: the process environment,     *)
(* the cache directory, the loader mutex and the loader map.               *)
(***************************************************************************)
EXTENDS Integers, Sequences, FiniteSets, TLC

(* ------------------------------ bounds --------------------------------- *)

\* Worker threads serving requests concurrently.
NThreads == 2

\* Requests served in one behaviour (request ids are 1..MaxRequests).
MaxRequests == 2

\* External touches of artifact files (mtime changes from outside).
MaxTouches == 1

\* Inputs given to the parser are made of at most this many pieces.
MaxPieces == 3

\* Tokens of a parsed template handed to the generator.
MaxTokens == 3

\* Response-control calls made by one render of a template.
MaxCalls == 2

\* Characters of an x-forwarded-for header.
MaxHeaderLen == 3

\* register_cleanup calls made by the process.
MaxRegister == 3

\* Characters of a Text payload handed to the generator on its own.
MaxTextLen == 3

\* get_or_init and rsp_state_get_or_init calls made on GLOBAL_STATE.
MaxStateCalls == 3

Threads == 1..NThreads

(* ----------------------------- templates ------------------------------- *)

\* Representative template files of the docroot:
\*   "unclosed"  prefix <% let x            (S8: the parser fails)
\*   "plain"     Hello, World               (S1: no runtime import, rustc)
\*   "ctl"       code that reads req and, depending on it, calls header(,
\*               SetCookie( and header_url( (package build)
Templates == {"unclosed", "plain", "ctl"}

\* parser.rs: parse fails with UnclosedTag when the input ends inside a tag.
ParseOk(content) == content # "unclosed"

\* generator.rs: has_request || has_response_control sets needs_cargo.
NeedsCargo(content) == content = "ctl"

\* generator.rs: request_init constructs Request::new() (which reads the
\* process environment) exactly when has_request || has_response_control.
ReadsRequest(content) == content = "ctl"

\* engine.rs: the cache key is the hex SHA-256 of the raw template text.
Sha256Hex(content) == <<"sha256", content>>

Hashes == {Sha256Hex(c) : c \in Templates}

\* compiler.rs get_lib_path: <cache_dir>/lib<name>.so (target_os = linux).
get_lib_path(name) == <<"cache_dir", "lib", name, ".so">>

Paths == {get_lib_path(h) : h \in Hashes}

(* -------------------------- response control --------------------------- *)

\* generator.rs thread_local block: STATUS_CODE, REDIRECT, COOKIES, HEADERS.
\* redirect is a sequence of at most one url (Option<String>).
ResponseDefault ==
    [status |-> 200, redirect |-> <<>>, cookies |-> <<>>, headers |-> <<>>]

\* The calls template code can make on the response control.
header(code) == [op |-> "header", s1 |-> "", s2 |-> "", n |-> code]

header_url(url) == [op |-> "header_url", s1 |-> url, s2 |-> "", n |-> 0]

SetCookie(name, value, max_age) ==
    [op |-> "SetCookie", s1 |-> name, s2 |-> value, n |-> max_age]

CleanCookie(name) == [op |-> "CleanCookie", s1 |-> name, s2 |-> "", n |-> 0]

\* generator.rs lines 145-160: what each helper does to the cells.
ApplyCall(rc, c) ==
    CASE c.op = "header"      -> [rc EXCEPT !.status = c.n]
      [] c.op = "header_url"  -> [rc EXCEPT !.redirect = <<c.s1>>, !.status = 302]
      [] c.op = "SetCookie"   -> [rc EXCEPT !.cookies = Append(@, <<c.s1, c.s2, c.n>>)]
      [] c.op = "CleanCookie" -> [rc EXCEPT !.cookies = Append(@, <<c.s1, "", -1>>)]

RECURSIVE RunCalls(_, _)
RunCalls(rc, calls) ==
    IF calls = <<>> THEN rc
    ELSE RunCalls(ApplyCall(rc, Head(calls)), Tail(calls))

\* The call sequences a render of the template can make.  "plain" calls
\* nothing.  The code of "ctl" branches on the request: it calls nothing, or
\* SetCookie("sid", "abc", 3600) and then header_url("/login").
Programs(content) ==
    IF content = "ctl"
    THEN { <<>>,
           <<SetCookie("sid", "abc", 3600), header_url("/login")>> }
    ELSE { <<>> }

(* ------------------------------- state --------------------------------- *)

\* main.rs handle_request: the environment variables written per request.
EnvKeys == {"REQUEST_METHOD", "QUERY_STRING", "REQUEST_URI", "RSP_BODY"}

VARIABLES
    pc,         \* [Threads -> position of the thread in its request]
    req,        \* [Threads -> [id, file]]: the request the thread is handling
    nreq,       \* requests accepted so far; the next request id is nreq + 1
    env,        \* process environment: [EnvKeys -> id of the request whose
                \*   value the variable holds], 0 = the value at process start
    art,        \* cache directory: [Paths -> [exists, writers, mtime]];
                \*   writers > 0 while a toolchain or copy is writing the file
    srcfile,    \* [Hashes -> BOOLEAN]: <cache>/<hash>.rs exists
    project,    \* [Hashes -> BOOLEAN]: <cache>/cargo/<hash>/ was written
    built,      \* [Hashes -> BOOLEAN]: <target>/release/librsp_<hash>.so exists
    toolran,    \* [Hashes -> BOOLEAN]: the toolchain (rustc or cargo) has
                \*   been invoked for the hash
    mutex,      \* RspEngine.loader mutex: 0 = free, else the holding thread
    libraries,  \* Loader.libraries: [Paths -> [handle, modified]], NoEntry
                \*   (handle 0) where the HashMap has no entry for the path
    live,       \* open Library handles: set of [id, path, mtime], mtime being
                \*   the file's mtime when the handle was opened
    tls,        \* [HandleIds -> [Threads -> response control]]: the
                \*   thread_local cells of each loaded artifact
    lib_path,   \* [Threads -> path returned by the compiler, <<>> before]
    modified,   \* [Threads -> mtime read by the loader's stat]
    cached,     \* [Threads -> artifact file existed when render was entered]
    decision,   \* [Threads -> "absent" | "stale" | "fresh" | "none"]: why the
                \*   loader did or did not reload in this call
    stages,     \* [Threads -> stages run so far in this render call]
    last,       \* the render call that returned last: [id, file, stages,
                \*   prog, seen, result], where prog is the
                \*   response-control calls its invocation made, seen the
                \*   environment its Request::new read and result the
                \*   RenderResult or RspError it returned
    ntouch,     \* external touches so far
    parser,     \* one Parser::parse call: its input, iterator position,
                \*   buffers, output lists and outcome
    ffi,        \* one Loader::render_with_response call from line 68 on:
                \*   the opened library's exports, the symbols bound, the
                \*   artifact functions called and the outcome
    gen,        \* one Generator::generate_full_source call: the parsed
                \*   template, the locals of the call and the
                \*   GeneratedCode returned
    wire,       \* one artifact invoked through the loader: the calls its
                \*   template makes, its cells, the text of the pointer getters
                \*   and the values the loader returns
    ip,         \* one Request::ip call: the request's headers, the locals of
                \*   the call and the string returned
    cleanup,    \* register_cleanup: the two statics, the handlers installed,
                \*   each thread's position in its call, the interrupt
    inc,        \* one RspEngine::include call: docroot, argument, what is at
                \*   the joined path, what the call used and what it returned
    hdr,        \* requests handled one after another: the HTTP_* variables of
                \*   the environment, the headers the current request sent and
                \*   the header map its template saw
    gstate,     \* GLOBAL_STATE of the runtime crate and the threads calling
                \*   get_or_init on it
    handler     \* the ctrlc handler thread installed by register_cleanup

vars == <<pc, req, nreq, env, art, srcfile, project, built, toolran, mutex,
          libraries, live, tls, lib_path, modified, cached, decision,
          stages, last, ntouch, parser, ffi, gen, wire, ip, cleanup,
          inc, hdr, gstate, handler>>

\* The engine, the compiler driver and the loader map, as one tuple.
engineVars == <<pc, req, nreq, env, art, srcfile, project, built, toolran,
                mutex, libraries, live, tls, lib_path, modified, cached,
                decision, stages, last, ntouch>>

\* The single calls followed step by step: they move only in the
\* specifications that follow one parse or one invocation.
unitVars == <<parser, ffi, gen, wire, ip, cleanup, inc, hdr, gstate, handler>>

\* What a step of one unit leaves alone: the engine and the other units.
exceptParser == <<engineVars, ffi, gen, wire, ip, cleanup, inc, hdr, gstate, handler>>

exceptFfi == <<engineVars, parser, gen, wire, ip, cleanup, inc, hdr, gstate,
               handler>>

exceptGen == <<engineVars, parser, ffi, wire, ip, cleanup, inc, hdr, gstate,
               handler>>

exceptWire == <<engineVars, parser, ffi, gen, ip, cleanup, inc, hdr, gstate, handler>>

exceptIp == <<engineVars, parser, ffi, gen, wire, cleanup, inc, hdr, gstate,
              handler>>

exceptCleanup == <<engineVars, parser, ffi, gen, wire, ip, inc, hdr, gstate, handler>>

exceptInc == <<engineVars, parser, ffi, gen, wire, ip, cleanup, hdr, gstate,
               handler>>

exceptHdr == <<engineVars, parser, ffi, gen, wire, ip, cleanup, inc, gstate,
               handler>>

exceptGstate == <<engineVars, parser, ffi, gen, wire, ip, cleanup, inc,
                  hdr, handler>>

exceptHandler == <<engineVars, parser, ffi, gen, wire, ip, cleanup, inc,
                   hdr, gstate>>

fsVars == <<art, srcfile, project, built, toolran>>

loaderVars == <<libraries, live, tls>>

\* The variables of a render call that die when it returns.
callVars == <<lib_path, modified, cached, decision, stages>>

\* Names for open library handles.  Every open happens inside one request
\* and a closed handle's name is free again, so these are enough.
HandleIds == 1..MaxRequests

NoEntry == [handle |-> 0, modified |-> 0]

FreshCells == [t \in Threads |-> ResponseDefault]

NoRequest == [id |-> 0, file |-> "none"]

NoFile == [exists |-> FALSE, writers |-> 0, mtime |-> 0]

NotRead == [k \in EnvKeys |-> -1]

NoResult ==
    [kind |-> "none", detail |-> "", status |-> 0, redirect |-> <<>>,
     cookies |-> <<>>, headers |-> <<>>]

\* Faulty variant of Failure: every stage error becomes RspError::Io.
FailureUntagged(kind, detail) ==
    [NoResult EXCEPT !.kind = "Io", !.detail = detail]

\* engine.rs RspError: Parse(UnclosedTag), Compile(stderr), Load(Io | Load).
Failure(kind, detail) == [NoResult EXCEPT !.kind = kind, !.detail = detail]

\* loader.rs lines 98-112: an empty redirect string is reported as absent.
LoaderRedirect(r) == IF r = <<>> \/ r[1] = "" THEN <<>> ELSE r

\* loader.rs lines 88-140: the tuple built from the getters after render
\* returned.  Cookies and headers cross the ABI as text; the names and
\* values of Calls hold no tab, newline or colon, so the records read back
\* are the records written.
Collected(rc) ==
    [kind |-> "Ok", detail |-> "", status |-> rc.status,
     redirect |-> LoaderRedirect(rc.redirect),
     cookies |-> rc.cookies, headers |-> rc.headers]

EngineInit ==
    /\ pc = [t \in Threads |-> "idle"]
    /\ req = [t \in Threads |-> NoRequest]
    /\ nreq = 0
    /\ env = [k \in EnvKeys |-> 0]
    /\ art = [p \in Paths |-> NoFile]
    /\ srcfile = [h \in Hashes |-> FALSE]
    /\ project = [h \in Hashes |-> FALSE]
    /\ built = [h \in Hashes |-> FALSE]
    /\ toolran = [h \in Hashes |-> FALSE]
    /\ mutex = 0
    /\ libraries = [p \in Paths |-> NoEntry]
    /\ live = {}
    /\ tls = [i \in HandleIds |-> FreshCells]
    /\ lib_path = [t \in Threads |-> <<>>]
    /\ modified = [t \in Threads |-> 0]
    /\ cached = [t \in Threads |-> FALSE]
    /\ decision = [t \in Threads |-> "none"]
    /\ stages = [t \in Threads |-> <<>>]
    /\ last = [id |-> 0, file |-> "none", stages |-> <<>>,
               prog |-> <<>>, seen |-> NotRead, result |-> NoResult]
    /\ ntouch = 0

\* The hash and the artifact path of the template thread t is rendering.
HashOf(t) == Sha256Hex(req[t].file)

PathOf(t) == get_lib_path(HashOf(t))

\* The render call of thread t returns r after the stages st; its
\* invocation, if it came to one, made the calls and read the environment sn.
\* The call's locals are gone and the worker is free for another request.
Return(t, r, st, calls, sn) ==
    /\ last' = [id |-> req[t].id, file |-> req[t].file,
                stages |-> st, prog |-> calls, seen |-> sn, result |-> r]
    /\ pc' = [pc EXCEPT ![t] = "idle"]
    /\ req' = [req EXCEPT ![t] = NoRequest]
    /\ lib_path' = [lib_path EXCEPT ![t] = <<>>]
    /\ modified' = [modified EXCEPT ![t] = 0]
    /\ cached' = [cached EXCEPT ![t] = FALSE]
    /\ decision' = [decision EXCEPT ![t] = "none"]
    /\ stages' = [stages EXCEPT ![t] = <<>>]

(* ------------------- front-end and engine: entry ----------------------- *)

\* main.rs handle_request lines 128-167: a request for an existing .rsp file
\* arrives on worker t, which writes the request's values to the process
\* environment (no lock is taken) and calls the engine;
\* engine.rs render_file_with_body (set_var RSP_BODY again), render_file
\* (read the template) and the head of render, lines 106-111: parse
\* (UnclosedTag returns), generate_full_source, hash.
HandleRequest(t) ==
    /\ pc[t] = "idle"
    /\ UNCHANGED unitVars
    /\ nreq < MaxRequests
    /\ nreq' = nreq + 1
    /\ env' = [k \in EnvKeys |-> nreq + 1]
    /\ \E f \in Templates :
          IF ParseOk(f)
          THEN /\ req' = [req EXCEPT ![t] = [id |-> nreq + 1, file |-> f]]
               /\ stages' = [stages EXCEPT ![t] = <<"parse", "generate">>]
               /\ cached' = [cached EXCEPT ![t] =
                                art[get_lib_path(Sha256Hex(f))].exists]
               /\ pc' = [pc EXCEPT ![t] = "compile"]
               /\ UNCHANGED <<lib_path, modified, decision, last>>
          ELSE /\ last' = [id |-> nreq + 1, file |-> f,
                           stages |-> <<"parse">>, prog |-> <<>>,
                           seen |-> NotRead,
                           result |-> Failure("Parse", "UnclosedTag")]
               /\ UNCHANGED <<pc, req, callVars>>
    /\ UNCHANGED <<fsVars, mutex, loaderVars, ntouch>>

(* --------------------------- compiler driver --------------------------- *)

\* Faulty variant of OutputPathExists: the existence check always misses.
OutputPathNeverExists(f) == FALSE

\* compiler.rs lines 44 and 81: output_path.exists().
OutputPathExists(f) == f.exists

\* A toolchain (the linker run by rustc) or std::fs::copy starts writing the
\* canonical artifact file: the file exists from then on, with part of its
\* bytes, and its mtime moves.
BeginWrite(f) ==
    [exists |-> TRUE, writers |-> f.writers + 1, mtime |-> f.mtime + 1]

\* The writer has written the last byte.
EndWrite(f) == [f EXCEPT !.writers = @ - 1, !.mtime = @ + 1]

\* compile lines 42-46 and compile_with_options lines 79-83: cache hit.
CompileCacheHit(t) ==
    /\ pc[t] = "compile"
    /\ UNCHANGED unitVars
    /\ OutputPathExists(art[PathOf(t)])
    /\ lib_path' = [lib_path EXCEPT ![t] = PathOf(t)]
    /\ pc' = [pc EXCEPT ![t] = "lock"]
    /\ UNCHANGED <<req, nreq, env, fsVars, mutex, loaderVars, modified, cached,
                   decision, stages, last, ntouch>>

\* compile lines 48-49 (write <cache>/<hash>.rs) and compile_with_options
\* lines 85-93 (create the scratch project, write Cargo.toml and src/lib.rs).
CompileWriteSource(t) ==
    /\ pc[t] = "compile"
    /\ UNCHANGED unitVars
    /\ ~OutputPathExists(art[PathOf(t)])
    /\ IF NeedsCargo(req[t].file)
       THEN /\ project' = [project EXCEPT ![HashOf(t)] = TRUE]
            /\ UNCHANGED srcfile
       ELSE /\ srcfile' = [srcfile EXCEPT ![HashOf(t)] = TRUE]
            /\ UNCHANGED project
    /\ pc' = [pc EXCEPT ![t] = "toolchain"]
    /\ UNCHANGED <<req, nreq, env, art, built, toolran, mutex, loaderVars,
                   callVars, last, ntouch>>

\* Faulty variant of ToolchainFail: the failure path cleans up what the
\* call wrote.
ToolchainFailCleansUp(t) ==
    /\ pc[t] = "toolchain"
    /\ UNCHANGED unitVars
    /\ toolran' = [toolran EXCEPT ![HashOf(t)] = TRUE]
    /\ srcfile' = [srcfile EXCEPT ![HashOf(t)] = FALSE]
    /\ project' = [project EXCEPT ![HashOf(t)] = FALSE]
    /\ Return(t, Failure("Compile", "stderr"), Append(stages[t], "toolchain"),
              <<>>, NotRead)
    /\ UNCHANGED <<nreq, env, art, built, mutex, loaderVars, ntouch>>

\* compile lines 61-66 and compile_with_options lines 101-106: the toolchain
\* was run and exited non-zero; nothing is written at the canonical path.
ToolchainFail(t) ==
    /\ pc[t] = "toolchain"
    /\ UNCHANGED unitVars
    /\ toolran' = [toolran EXCEPT ![HashOf(t)] = TRUE]
    /\ Return(t, Failure("Compile", "stderr"), Append(stages[t], "toolchain"),
              <<>>, NotRead)
    /\ UNCHANGED <<nreq, env, art, srcfile, project, built, mutex, loaderVars,
                   ntouch>>

\* compile lines 51-61: rustc <hash>.rs -o output_path; its linker creates
\* the output file at output_path and writes it.
RustcLink(t) ==
    /\ pc[t] = "toolchain"
    /\ UNCHANGED unitVars
    /\ ~NeedsCargo(req[t].file)
    /\ toolran' = [toolran EXCEPT ![HashOf(t)] = TRUE]
    /\ stages' = [stages EXCEPT ![t] = Append(@, "toolchain")]
    /\ art' = [art EXCEPT ![PathOf(t)] = BeginWrite(@)]
    /\ pc' = [pc EXCEPT ![t] = "writing"]
    /\ UNCHANGED <<req, nreq, env, srcfile, project, built, mutex, loaderVars,
                   lib_path, modified, cached, decision, last, ntouch>>

\* compile_with_options lines 95-125: cargo build --release exited with
\* success, leaving its library under <target>/release or not; when
\* built_lib.exists(), std::fs::copy(built_lib, output_path) opens
\* output_path truncating it and starts to write.
CargoBuildCopy(t) ==
    /\ pc[t] = "toolchain"
    /\ UNCHANGED unitVars
    /\ NeedsCargo(req[t].file)
    /\ toolran' = [toolran EXCEPT ![HashOf(t)] = TRUE]
    /\ stages' = [stages EXCEPT ![t] = Append(@, "toolchain")]
    /\ \E produced \in BOOLEAN :
          /\ built' = [built EXCEPT ![HashOf(t)] = @ \/ produced]
          /\ built'[HashOf(t)]
    /\ art' = [art EXCEPT ![PathOf(t)] = BeginWrite(@)]
    /\ pc' = [pc EXCEPT ![t] = "writing"]
    /\ UNCHANGED <<req, nreq, env, srcfile, project, mutex, loaderVars,
                   lib_path, modified, cached, decision, last, ntouch>>

\* compile_with_options lines 95-128: cargo exited with success but
\* built_lib does not exist; nothing is copied and Ok(output_path) is
\* returned all the same.
CargoBuildNoLib(t) ==
    /\ pc[t] = "toolchain"
    /\ UNCHANGED unitVars
    /\ NeedsCargo(req[t].file)
    /\ ~built[HashOf(t)]
    /\ toolran' = [toolran EXCEPT ![HashOf(t)] = TRUE]
    /\ stages' = [stages EXCEPT ![t] = Append(@, "toolchain")]
    /\ lib_path' = [lib_path EXCEPT ![t] = PathOf(t)]
    /\ pc' = [pc EXCEPT ![t] = "lock"]
    /\ UNCHANGED <<req, nreq, env, art, srcfile, project, built, mutex,
                   loaderVars, modified, cached, decision, last, ntouch>>

\* compile lines 61-70 (rustc exited with success: remove the source file,
\* Ok(output_path)) and compile_with_options lines 125-128 (the copy is
\* complete, Ok(output_path)).
WriteDone(t) ==
    /\ pc[t] = "writing"
    /\ UNCHANGED unitVars
    /\ art' = [art EXCEPT ![PathOf(t)] = EndWrite(@)]
    /\ srcfile' = IF NeedsCargo(req[t].file) THEN srcfile
                  ELSE [srcfile EXCEPT ![HashOf(t)] = FALSE]
    /\ lib_path' = [lib_path EXCEPT ![t] = PathOf(t)]
    /\ pc' = [pc EXCEPT ![t] = "lock"]
    /\ UNCHANGED <<req, nreq, env, project, built, toolran, mutex, loaderVars,
                   modified, cached, decision, stages, last, ntouch>>

(* ------------------------------- loader -------------------------------- *)

\* Faulty variant of MutexFree: the lock is granted whoever holds it.
MutexAlwaysFree(m) == TRUE

\* engine.rs line 123: self.loader.lock() succeeds when no thread holds it.
MutexFree(m) == m = 0

\* Faulty variant of NeedsReload: a library is opened only when the map has none.
NeedsReloadIgnoresMtime(libs, p, m) == libs[p] = NoEntry

\* loader.rs lines 54-57: needs_reload.
NeedsReload(libs, p, m) ==
    IF libs[p] # NoEntry THEN libs[p].modified # m ELSE TRUE

\* Faulty variant of DropOld: the reload closes every open library.
DropOldClosesAll(lv, libs, p) == {}

\* Faulty variant of DropOld: the old handle is not closed before the new open.
DropOldKeepsHandle(lv, libs, p) == lv

\* loader.rs lines 60-62: libraries.remove(lib_path) and drop(old), which
\* closes the library: the handles left open.
DropOld(lv, libs, p) == {h \in lv : h.id # libs[p].handle}

\* The thread_local cells left when handle i is closed.
CellsWithout(cells, i) ==
    [j \in HandleIds |-> IF j = i THEN FreshCells ELSE cells[j]]

\* engine.rs line 123 and loader.rs lines 52-62: take the loader mutex (the
\* guard lives to the end of render), stat the artifact (a missing file is
\* LoadError::Io), decide needs_reload, and on reload remove and drop the
\* old entry.
LoaderStat(t) ==
    /\ pc[t] = "lock"
    /\ UNCHANGED unitVars
    /\ MutexFree(mutex)
    /\ LET p == lib_path[t]
           m == art[p].mtime
       IN IF ~art[p].exists
          THEN /\ Return(t, Failure("Load", "Io"), Append(stages[t], "load"),
                         <<>>, NotRead)
               /\ UNCHANGED <<mutex, libraries, live, tls>>
          ELSE /\ mutex' = t
               /\ modified' = [modified EXCEPT ![t] = m]
               /\ stages' = [stages EXCEPT ![t] = Append(@, "load")]
               /\ UNCHANGED <<req, lib_path, cached, last>>
               /\ IF NeedsReload(libraries, p, m)
                  THEN /\ decision' = [decision EXCEPT ![t] =
                              IF libraries[p] = NoEntry THEN "absent" ELSE "stale"]
                       /\ live' = DropOld(live, libraries, p)
                       /\ tls' = CellsWithout(tls, libraries[p].handle)
                       /\ libraries' = [libraries EXCEPT ![p] = NoEntry]
                       /\ pc' = [pc EXCEPT ![t] = "open"]
                  ELSE /\ decision' = [decision EXCEPT ![t] = "fresh"]
                       /\ pc' = [pc EXCEPT ![t] = "invoke"]
                       /\ UNCHANGED <<libraries, live, tls>>
    /\ UNCHANGED <<nreq, env, fsVars, ntouch>>

\* A name for the handle Library::new returns: one no open handle has.
NewHandle(lv) ==
    CHOOSE i \in HandleIds :
       /\ \A h \in lv : h.id # i
       /\ \A j \in HandleIds : j < i => \E h \in lv : h.id = j

\* loader.rs lines 63-66: Library::new(lib_path) and insert with the mtime
\* of the stat.  A file that is missing or still being written does not load
\* (LoadError::Load); the entry stays removed and the guard is dropped.
LoaderOpen(t) ==
    /\ pc[t] = "open"
    /\ UNCHANGED unitVars
    /\ LET p == lib_path[t]
       IN IF ~art[p].exists \/ art[p].writers > 0
          THEN /\ Return(t, Failure("Load", "Load"), stages[t], <<>>, NotRead)
               /\ mutex' = 0
               /\ UNCHANGED <<libraries, live, tls>>
          ELSE /\ live' = live \cup
                     {[id |-> NewHandle(live), path |-> p,
                       mtime |-> art[p].mtime]}
               /\ libraries' = [libraries EXCEPT ![p] =
                     [handle |-> NewHandle(live), modified |-> modified[t]]]
               /\ tls' = [tls EXCEPT ![NewHandle(live)] = FreshCells]
               /\ pc' = [pc EXCEPT ![t] = "invoke"]
               /\ UNCHANGED <<req, mutex, last, callVars>>
    /\ UNCHANGED <<nreq, env, fsVars, ntouch>>

\* generator.rs lines 138-171: the artifact's render runs the template's
\* calls on the calling thread's cells as they are: nothing sets them back
\* to their initial values first.
RenderCells(cells, calls) == RunCalls(cells, calls)

\* loader.rs lines 68-140 and the artifact's render (generator.rs lines
\* 126-130 and 166-171): bind the symbols, call render, which builds the
\* request from the environment when the template uses it and runs the
\* template's calls on this thread's cells, then read the getters;
\* render_with_response returns and the mutex guard is dropped (engine.rs
\* lines 124-134).  The entry is the one line 68 unwraps: it is there, the
\* caller having held the mutex since the stat.
LoaderInvoke(t) ==
    /\ pc[t] = "invoke"
    /\ UNCHANGED unitVars
    /\ libraries[lib_path[t]] # NoEntry
    /\ LET i == libraries[lib_path[t]].handle
       IN \E calls \in Programs(req[t].file) :
            LET after == RenderCells(tls[i][t], calls)
            IN /\ tls' = [tls EXCEPT ![i][t] = after]
               /\ Return(t, Collected(after), stages[t], calls,
                         IF ReadsRequest(req[t].file) THEN env ELSE NotRead)
    /\ mutex' = 0
    /\ UNCHANGED <<nreq, env, fsVars, libraries, live, ntouch>>

\* Faulty variant of UnloadAll: the map is cleared but the handles stay open.
UnloadAllKeepsHandles ==
    /\ MutexFree(mutex)
    /\ UNCHANGED unitVars
    /\ libraries' = [p \in Paths |-> NoEntry]
    /\ UNCHANGED <<pc, req, nreq, env, fsVars, mutex, callVars, last,
                   ntouch, live, tls>>

\* loader.rs lines 143-145 through engine.rs lines 165-169: unload_all takes
\* the mutex, clears the map (dropping every handle) and releases the mutex.
UnloadAll ==
    /\ MutexFree(mutex)
    /\ UNCHANGED unitVars
    /\ libraries' = [p \in Paths |-> NoEntry]
    /\ live' = {}
    /\ tls' = [i \in HandleIds |-> FreshCells]
    /\ UNCHANGED <<pc, req, nreq, env, fsVars, mutex, callVars, last,
                   ntouch>>

(* ----------------------------- environment ----------------------------- *)

\* Something outside the engine touches a complete artifact file: its mtime
\* moves (spec, reload key: "after touching an artifact file").
Touch(p) ==
    /\ ntouch < MaxTouches
    /\ UNCHANGED unitVars
    /\ art[p].exists
    /\ art[p].writers = 0
    /\ art' = [art EXCEPT ![p].mtime = @ + 1]
    /\ ntouch' = ntouch + 1
    /\ UNCHANGED <<pc, req, nreq, env, srcfile, project, built, toolran, mutex,
                   loaderVars, callVars, last>>

(* -------------------- one invocation, call by call --------------------- *)

\* loader.rs lines 70-86: the exported names in the order render_with_response
\* looks them up.
SymbolOrder ==
    <<"render", "free_string", "get_status_code", "get_redirect",
      "get_cookies", "get_headers">>

Symbols == {SymbolOrder[i] : i \in DOMAIN SymbolOrder}

\* The getters whose result is a pointer the loader tests for null.
PointerGetters == {"get_redirect", "get_cookies", "get_headers"}

\* loader.rs lines 17-25: the conversions into LoadError that thiserror
\* derives from the #[from] attributes.
LoadErrorFrom(e) ==
    CASE e = "libloading::Error" -> "Load"
      [] e = "std::ffi::NulError" -> "Symbol"
      [] e = "std::io::Error" -> "Io"

\* loader.rs lines 70-86: loaded.library.get(name), Err(libloading::Error)
\* for a name the library does not export.
LibraryGet(exports, name) ==
    IF name \in exports THEN "Ok" ELSE "libloading::Error"

\* One call of an artifact function: arg names the string a free_string call
\* is given, "" for the functions without argument.
Call(fn, arg) == [fn |-> fn, arg |-> arg]

\* One access of the loader to the memory behind a pointer an artifact
\* function returned: ptr names the function, op is "ret" for the function
\* returning a non-null pointer, "null" for its returning a null one, "read"
\* for CStr::from_ptr(ptr).to_string_lossy().into_owned() and "free" for
\* free_fn(ptr).
Mem(op, ptr) == [op |-> op, ptr |-> ptr]

NoFfi ==
    [exports |-> {}, nulls |-> {}, empty |-> {}, at |-> "idle", nbound |-> 0,
     trace |-> <<>>, mem |-> <<>>, redirect |-> "unset", result |-> "none"]

\* The entry of loader.rs line 68 for a library that exports the names in
\* exports, whose getters in nulls return a null pointer and whose getters
\* in empty return a pointer to the empty string.
FfiStart(exports, nulls, empty) ==
    [NoFfi EXCEPT !.exports = exports, !.nulls = nulls, !.empty = empty,
                  !.at = "bind"]

\* Faulty variant of AllBound: the calls start once render is bound.
AllBoundAfterFirst(n) == n >= 1

\* loader.rs lines 70-86: every lookup ends in `?`, so line 88 is reached
\* with all six symbols bound.
AllBound(n) == n = Len(SymbolOrder)

\* loader.rs lines 70-86: look up the next name; a missing one returns the
\* error converted by `?`.
FfiBind ==
    /\ ffi.at = "bind"
    /\ ~AllBound(ffi.nbound)
    /\ LET got == LibraryGet(ffi.exports, SymbolOrder[ffi.nbound + 1])
       IN ffi' = IF got = "Ok"
                 THEN [ffi EXCEPT !.nbound = @ + 1]
                 ELSE [ffi EXCEPT !.at = "done",
                                  !.result = LoadErrorFrom(got)]
    /\ UNCHANGED exceptFfi

\* loader.rs lines 88-94: render_fn(), copy the body, free_fn(ptr).  The
\* render of a generated artifact returns CString::into_raw (generator.rs
\* line 170), never a null pointer.
FfiRender ==
    /\ ffi.at = "bind"
    /\ AllBound(ffi.nbound)
    /\ ffi' = [ffi EXCEPT !.at = "status",
                          !.trace = @ \o <<Call("render", ""),
                                           Call("free_string", "body")>>,
                          !.mem = @ \o <<Mem("ret", "render"),
                                         Mem("read", "render"),
                                         Mem("free", "render")>>]
    /\ UNCHANGED exceptFfi

\* loader.rs line 96: get_status_fn().
FfiStatus ==
    /\ ffi.at = "status"
    /\ ffi' = [ffi EXCEPT !.at = "get_redirect",
                          !.trace = Append(@, Call("get_status_code", ""))]
    /\ UNCHANGED exceptFfi

\* The position after the getter g.
AfterGetter(g) ==
    CASE g = "get_redirect" -> "get_cookies"
      [] g = "get_cookies" -> "get_headers"
      [] g = "get_headers" -> "return"

\* Faulty variant of FfiGetter: the empty string is reported without being
\* handed to free_fn.
FfiGetterKeepsEmpty ==
    /\ ffi.at \in PointerGetters
    /\ LET isNull == ffi.at \in ffi.nulls
           isEmpty == ffi.at \in ffi.empty
       IN ffi' = [ffi EXCEPT
                 !.at = AfterGetter(ffi.at),
                 !.trace = @ \o (IF isNull \/ isEmpty
                                 THEN <<Call(ffi.at, "")>>
                                 ELSE <<Call(ffi.at, ""),
                                        Call("free_string", ffi.at)>>),
                 !.mem = @ \o (IF isNull THEN <<Mem("null", ffi.at)>>
                               ELSE IF isEmpty
                               THEN <<Mem("ret", ffi.at), Mem("read", ffi.at)>>
                               ELSE <<Mem("ret", ffi.at), Mem("read", ffi.at),
                                      Mem("free", ffi.at)>>),
                 !.redirect = IF ffi.at # "get_redirect" THEN @
                              ELSE IF isNull \/ isEmpty THEN "None"
                              ELSE "Some"]
    /\ UNCHANGED exceptFfi

\* loader.rs lines 98-112, 114-125 and 127-138: call the getter; a null
\* result is only tested (100, 116, 129), a non-null one is copied and then
\* handed to free_fn; the redirect is None for a null pointer and for the
\* empty string (100-101, 106-107), which is copied and freed first.
FfiGetter ==
    /\ ffi.at \in PointerGetters
    /\ LET isNull == ffi.at \in ffi.nulls
           isEmpty == ffi.at \in ffi.empty
       IN ffi' = [ffi EXCEPT
                 !.at = AfterGetter(ffi.at),
                 !.trace = @ \o (IF isNull
                                 THEN <<Call(ffi.at, "")>>
                                 ELSE <<Call(ffi.at, ""),
                                        Call("free_string", ffi.at)>>),
                 !.mem = @ \o (IF isNull THEN <<Mem("null", ffi.at)>>
                               ELSE <<Mem("ret", ffi.at), Mem("read", ffi.at),
                                      Mem("free", ffi.at)>>),
                 !.redirect = IF ffi.at # "get_redirect" THEN @
                              ELSE IF isNull \/ isEmpty THEN "None"
                              ELSE "Some"]
    /\ UNCHANGED exceptFfi

\* loader.rs line 140: Ok((content, status_code, redirect, cookies, headers)).
FfiReturn ==
    /\ ffi.at = "return"
    /\ ffi' = [ffi EXCEPT !.at = "done", !.result = "Ok"]
    /\ UNCHANGED exceptFfi

(* ------------------------ parser, char by char ------------------------- *)

\* Strings are sequences of one-character strings.  The characters the
\* parser tells apart, a blank and two letters.
Chars == {"<", "%", ">", "=", "@", "!", " ", "a", "b"}

\* The pieces the inputs are put together from: single characters, the tag
\* delimiters and some whole tags.
Pieces ==
    {<<c>> : c \in Chars \ {"b"}} \cup
    {<<"<", "%">>, <<"%", ">">>,
     <<"<", "%", "@", " ", "a", " ", "%", ">">>,
     <<"<", "%", "@", "b", "%", ">">>,
     <<"<", "%", "!", "b", "%", ">">>}

\* The inputs of at most n pieces.
RECURSIVE InputsOf(_)
InputsOf(n) ==
    IF n = 0 THEN {<<>>}
    ELSE LET shorter == InputsOf(n - 1)
         IN shorter \cup {i \o q : i \in shorter, q \in Pieces}

Inputs == InputsOf(MaxPieces)

\* str::trim strips the characters of the White_Space property.
Whitespace == {" "}

\* parser.rs lines 3-10: a Token.
Token(kind, payload) == [kind |-> kind, payload |-> payload]

\* chars.peek() after n characters were consumed: the next one, or "" when
\* the iterator is at its end.
Peek(input, n) == IF n < Len(input) THEN input[n + 1] ELSE ""

\* Faulty variant of TagTypeOf: '!' is not told from code.
TagTypeOfNoDeclaration(c) ==
    CASE c = "=" -> "Expression"
      [] c = "@" -> "Directive"
      [] OTHER -> "Code"

\* parser.rs lines 48-62: the tag type the peeked character selects.
TagTypeOf(c) ==
    CASE c = "=" -> "Expression"
      [] c = "@" -> "Directive"
      [] c = "!" -> "Declaration"
      [] OTHER -> "Code"

RECURSIVE TrimStart(_)
TrimStart(str) ==
    IF str # <<>> /\ Head(str) \in Whitespace THEN TrimStart(Tail(str))
    ELSE str

RECURSIVE TrimEnd(_)
TrimEnd(str) ==
    IF str # <<>> /\ str[Len(str)] \in Whitespace
    THEN TrimEnd(SubSeq(str, 1, Len(str) - 1))
    ELSE str

\* parser.rs line 84: code_buf.trim().
Trim(str) == TrimEnd(TrimStart(str))

\* Faulty variant of FlushText: the run is pushed even when it is empty.
FlushTextAlways(tokens, text_buf) == Append(tokens, Token("Text", text_buf))

\* parser.rs lines 43-46 and 110-112: push the text run if it is not empty.
FlushText(tokens, text_buf) ==
    IF text_buf # <<>> THEN Append(tokens, Token("Text", text_buf))
    ELSE tokens

\* Faulty variant of PushTag: the flat lists are not filled.
PushTagTokenOnly(p, content) ==
    [p EXCEPT !.tokens = Append(@, Token(p.tag_type, content))]

\* parser.rs lines 86-101: push the token of the closed tag, and its content
\* on directives or declarations for these two types.
PushTag(p, content) ==
    [p EXCEPT
       !.tokens = Append(@, Token(p.tag_type, content)),
       !.directives = IF p.tag_type = "Directive" THEN Append(@, content)
                      ELSE @,
       !.declarations = IF p.tag_type = "Declaration" THEN Append(@, content)
                        ELSE @]

NoParse ==
    [input |-> <<>>, pos |-> 0, mode |-> "idle", text_buf |-> <<>>,
     code_buf |-> <<>>, tag_type |-> "none", tokens |-> <<>>,
     directives |-> <<>>, declarations |-> <<>>]

\* parser.rs lines 26-31: parse is entered with the input; pos counts the
\* characters the iterator has yielded.
ParseStart(input) == [NoParse EXCEPT !.input = input, !.mode = "text"]

\* Faulty variant of IsEscape: no '<' is an escape.
IsEscapeNever(ch, next) == FALSE

\* parser.rs lines 34-35: '<' with '<' peeked.
IsEscape(ch, next) == ch = "<" /\ next = "<"

\* Faulty variant of IsOpen: no '<' opens a tag.
IsOpenNever(ch, next) == FALSE

\* parser.rs lines 34 and 40: '<' with '%' peeked.
IsOpen(ch, next) == ch = "<" /\ next = "%"

\* parser.rs lines 71-72: '%' with '>' peeked.
IsClose(ch, next) == ch = "%" /\ next = ">"

\* parser.rs lines 33-39: '<<' pushes one '<' and consumes both.
ParseEscape ==
    /\ parser.mode = "text"
    /\ parser.pos < Len(parser.input)
    /\ IsEscape(parser.input[parser.pos + 1],
                Peek(parser.input, parser.pos + 1))
    /\ parser' = [parser EXCEPT !.text_buf = Append(@, "<"), !.pos = @ + 2]
    /\ UNCHANGED exceptParser

\* parser.rs lines 40-64: '<%' is consumed, the text run flushed, the tag
\* type chosen by the peeked character, which is consumed for '=', '@', '!'.
ParseOpenTag ==
    /\ parser.mode = "text"
    /\ parser.pos < Len(parser.input)
    /\ ~IsEscape(parser.input[parser.pos + 1],
                 Peek(parser.input, parser.pos + 1))
    /\ IsOpen(parser.input[parser.pos + 1],
              Peek(parser.input, parser.pos + 1))
    /\ LET type == TagTypeOf(Peek(parser.input, parser.pos + 2))
       IN parser' = [parser EXCEPT
                       !.pos = IF type = "Code" THEN @ + 2 ELSE @ + 3,
                       !.tokens = FlushText(@, parser.text_buf),
                       !.text_buf = <<>>,
                       !.tag_type = type,
                       !.code_buf = <<>>,
                       !.mode = "tag"]
    /\ UNCHANGED exceptParser

\* Faulty variant of ParseTextChar: a blank is consumed but not kept.
ParseTextCharDropsBlank ==
    /\ parser.mode = "text"
    /\ parser.pos < Len(parser.input)
    /\ ~IsEscape(parser.input[parser.pos + 1],
                 Peek(parser.input, parser.pos + 1))
    /\ ~IsOpen(parser.input[parser.pos + 1],
               Peek(parser.input, parser.pos + 1))
    /\ parser' = [parser EXCEPT
                    !.text_buf = IF parser.input[parser.pos + 1] \in Whitespace
                                 THEN @
                                 ELSE Append(@, parser.input[parser.pos + 1]),
                    !.pos = @ + 1]
    /\ UNCHANGED exceptParser

\* parser.rs lines 102-107: any other character joins the text run.
ParseTextChar ==
    /\ parser.mode = "text"
    /\ parser.pos < Len(parser.input)
    /\ ~IsEscape(parser.input[parser.pos + 1],
                 Peek(parser.input, parser.pos + 1))
    /\ ~IsOpen(parser.input[parser.pos + 1],
               Peek(parser.input, parser.pos + 1))
    /\ parser' = [parser EXCEPT
                    !.text_buf = Append(@, parser.input[parser.pos + 1]),
                    !.pos = @ + 1]
    /\ UNCHANGED exceptParser

\* Faulty variant of ParseTagChar: a '%' that does not close the tag is
\* dropped.
ParseTagCharDropsPercent ==
    /\ parser.mode = "tag"
    /\ parser.pos < Len(parser.input)
    /\ ~IsClose(parser.input[parser.pos + 1],
                Peek(parser.input, parser.pos + 1))
    /\ parser' = [parser EXCEPT
                    !.code_buf = IF parser.input[parser.pos + 1] = "%" THEN @
                                 ELSE Append(@, parser.input[parser.pos + 1]),
                    !.pos = @ + 1]
    /\ UNCHANGED exceptParser

\* parser.rs lines 66-81: inside a tag a character that does not close it
\* joins code_buf.
ParseTagChar ==
    /\ parser.mode = "tag"
    /\ parser.pos < Len(parser.input)
    /\ ~IsClose(parser.input[parser.pos + 1],
                Peek(parser.input, parser.pos + 1))
    /\ parser' = [parser EXCEPT
                    !.code_buf = Append(@, parser.input[parser.pos + 1]),
                    !.pos = @ + 1]
    /\ UNCHANGED exceptParser

\* parser.rs lines 71-75 and 84-101: '%>' closes the tag; its trimmed body
\* is pushed.
ParseCloseTag ==
    /\ parser.mode = "tag"
    /\ parser.pos < Len(parser.input)
    /\ IsClose(parser.input[parser.pos + 1],
               Peek(parser.input, parser.pos + 1))
    /\ parser' = [PushTag(parser, Trim(parser.code_buf)) EXCEPT
                    !.pos = @ + 2,
                    !.code_buf = <<>>,
                    !.tag_type = "none",
                    !.mode = "text"]
    /\ UNCHANGED exceptParser

\* parser.rs lines 67-70: the input ends inside a tag.
ParseUnclosed ==
    /\ parser.mode = "tag"
    /\ parser.pos = Len(parser.input)
    /\ parser' = [parser EXCEPT !.mode = "UnclosedTag"]
    /\ UNCHANGED exceptParser

\* parser.rs lines 108-118: the input is exhausted outside a tag: the last
\* text run is flushed and the template returned.
ParseEnd ==
    /\ parser.mode = "text"
    /\ parser.pos = Len(parser.input)
    /\ parser' = [parser EXCEPT
                    !.tokens = FlushText(@, parser.text_buf),
                    !.text_buf = <<>>,
                    !.mode = "Ok"]
    /\ UNCHANGED exceptParser

(* ----------------------- generator, token by token --------------------- *)

\* Strings the generator looks into are sequences of lexemes ("use",
\* "std::fmt", "Lazy<", ";", "\n", ...); Text payloads are sequences of
\* characters.

\* str.contains(needle): some lexeme is the needle, or holds it.
Contains(str, needle) ==
    \E i \in DOMAIN str :
        \/ str[i] = needle
        \/ needle = "once_cell" /\ str[i] = "once_cell::sync::Lazy"

\* generator.rs lines 45, 66: contains("req()") || contains("req.").
MentionsRequest(str) == Contains(str, "req()") \/ Contains(str, "req.")

\* generator.rs lines 51-54, 72-75.
MentionsResponseControl(str) ==
    \/ Contains(str, "header(")
    \/ Contains(str, "header_url(")
    \/ Contains(str, "SetCookie(")
    \/ Contains(str, "CleanCookie(")

\* directive.starts_with("use ") and starts_with("dep "): the keyword, a
\* blank and, the directive being trimmed, something after it.
StartsWithKeyword(directive, keyword) ==
    Len(directive) >= 2 /\ directive[1] = keyword

\* directive.starts_with(prefix) for the crate names of lines 93 and 97.
StartsWithCrate(directive, prefix) ==
    directive # <<>> /\ Contains(<<directive[1]>>, prefix)

\* str.trim_start_matches("use "): every leading repetition is removed.
RECURSIVE TrimStartMatches(_, _)
TrimStartMatches(str, keyword) ==
    IF StartsWithKeyword(str, keyword) \/ str = <<keyword, " ">>
    THEN TrimStartMatches(Tail(str), keyword)
    ELSE str

\* str.lines(): the pieces between newlines; a final newline ends the last
\* line and the empty string has no line.
RECURSIVE Lines(_)
Lines(str) ==
    IF str = <<>> THEN <<>>
    ELSE IF \A i \in DOMAIN str : str[i] # "\n" THEN <<str>>
    ELSE LET n == CHOOSE i \in DOMAIN str :
                      str[i] = "\n" /\ \A j \in 1..(i - 1) : str[j] # "\n"
         IN <<SubSeq(str, 1, n - 1)>> \o Lines(SubSeq(str, n + 1, Len(str)))

\* str.replace(from, to) for a one-character from: every occurrence gives
\* way to the characters of to.
RECURSIVE Replace(_, _, _)
Replace(str, from, to) ==
    IF str = <<>> THEN <<>>
    ELSE (IF Head(str) = from THEN to ELSE <<Head(str)>>)
             \o Replace(Tail(str), from, to)

\* Faulty variant of escape_string: the backslashes are escaped last.
escape_string_backslash_last(s) ==
    Replace(Replace(Replace(Replace(Replace(s,
        "\"", <<"\\", "\"">>), "\n", <<"\\", "n">>), "\r", <<"\\", "r">>),
        "\t", <<"\\", "t">>), "\\", <<"\\", "\\">>)

\* generator.rs lines 237-243: escape_string.
escape_string(s) ==
    Replace(Replace(Replace(Replace(Replace(s,
        "\\", <<"\\", "\\">>), "\"", <<"\\", "\"">>), "\n", <<"\\", "n">>),
        "\r", <<"\\", "r">>), "\t", <<"\\", "t">>)

\* One statement of the render body.
Statement(form, arg) == [form |-> form, arg |-> arg]

\* parser.rs lines 12-17: a ParsedTemplate, its declarations being the
\* payloads of its Declaration tokens (parser.rs 97-100).
ParsedOf(tokens) ==
    [tokens |-> tokens,
     declarations |->
         LET RECURSIVE Decls(_)
             Decls(ts) ==
                 IF ts = <<>> THEN <<>>
                 ELSE IF Head(ts).kind = "Declaration"
                      THEN <<Head(ts).payload>> \o Decls(Tail(ts))
                      ELSE Decls(Tail(ts))
         IN Decls(tokens)]

\* The tokens the templates of the model are made of.
TokenPool ==
    { Token("Text", <<"a", "\n">>),
      Token("Expression", <<"x">>),
      Token("Expression", <<"req.", "q">>),
      Token("Code", <<>>),
      Token("Code", <<"let", "\n", "x">>),
      Token("Code", <<"header(">>),
      Token("Code", <<"escape_html">>),
      Token("Directive", <<"use", "std::fmt">>),
      Token("Directive", <<"use", "once_cell::sync::Lazy", ";">>),
      Token("Directive", <<"once_cell">>),
      Token("Directive", <<"dep", "x">>),
      Token("Directive", <<"rusqlite">>),
      Token("Directive", <<"page">>),
      Token("Declaration", <<"Lazy<">>),
      Token("Declaration", <<"static">>),
      Token("Declaration", <<"escape_html">>) }

RECURSIVE TokenStreams(_)
TokenStreams(n) ==
    IF n = 0 THEN {<<>>}
    ELSE LET shorter == TokenStreams(n - 1)
         IN shorter \cup {Append(s, t) : s \in shorter, t \in TokenPool}

\* No generate_full_source call is being followed.
NoGen ==
    [parsed |-> ParsedOf(<<>>), at |-> "idle", k |-> 0,
     imports |-> <<>>, static_code |-> <<>>, render_code |-> <<>>,
     needs_cargo |-> FALSE, dependencies |-> <<>>, has_lazy |-> FALSE,
     has_request |-> FALSE, has_escape_html |-> FALSE,
     has_response_control |-> FALSE, result |-> <<>>]

\* generator.rs lines 17-26: the call is entered, its locals initialised;
\* k counts the declarations and then the tokens gone through.
GenStart(parsed) == [NoGen EXCEPT !.parsed = parsed, !.at = "loops"]

\* The token the second loop is at, <<>> outside it.
GenToken ==
    LET n == gen.k - Len(gen.parsed.declarations)
    IN IF gen.at = "loops" /\ n >= 0 /\ n < Len(gen.parsed.tokens)
       THEN <<gen.parsed.tokens[n + 1]>>
       ELSE <<>>

AtKind(kind) == GenToken # <<>> /\ GenToken[1].kind = kind

\* generator.rs lines 28-36: one declaration of the first loop.
GenDeclaration ==
    /\ gen.at = "loops"
    /\ gen.k < Len(gen.parsed.declarations)
    /\ LET dec == gen.parsed.declarations[gen.k + 1]
       IN gen' = [gen EXCEPT
              !.k = @ + 1,
              !.has_lazy = @ \/ Contains(dec, "Lazy<")
                             \/ Contains(dec, "once_cell"),
              !.has_escape_html = @ \/ Contains(dec, "escape_html"),
              !.static_code = Append(@, dec)]
    /\ UNCHANGED exceptGen

\* generator.rs lines 40-43: a Text token.
GenText ==
    /\ AtKind("Text")
    /\ gen' = [gen EXCEPT
           !.k = @ + 1,
           !.render_code =
               Append(@, Statement("push_str",
                                   escape_string(GenToken[1].payload)))]
    /\ UNCHANGED exceptGen

\* generator.rs lines 44-63: an Expression token.
GenExpression ==
    /\ AtKind("Expression")
    /\ LET expr == GenToken[1].payload
       IN gen' = [gen EXCEPT
              !.k = @ + 1,
              !.has_request = @ \/ MentionsRequest(expr),
              !.has_escape_html = @ \/ Contains(expr, "escape_html"),
              !.has_response_control = @ \/ MentionsResponseControl(expr),
              !.render_code = Append(@, Statement("format", expr))]
    /\ UNCHANGED exceptGen

\* Faulty variant of CodeLines: the block is emitted as one line.
CodeLinesUnsplit(code_block) == <<Statement("code", code_block)>>

\* generator.rs lines 77-79: one statement per line of the block.
CodeLines(code_block) ==
    LET lines == Lines(code_block)
    IN [i \in DOMAIN lines |-> Statement("code", lines[i])]

\* generator.rs lines 65-80: a Code token.
GenCode ==
    /\ AtKind("Code")
    /\ LET code_block == GenToken[1].payload
       IN gen' = [gen EXCEPT
              !.k = @ + 1,
              !.has_request = @ \/ MentionsRequest(code_block),
              !.has_escape_html = @ \/ Contains(code_block, "escape_html"),
              !.has_response_control =
                  @ \/ MentionsResponseControl(code_block),
              !.render_code = @ \o CodeLines(code_block)]
    /\ UNCHANGED exceptGen

\* generator.rs lines 81-104: a Directive token.
GenDirective ==
    /\ AtKind("Directive")
    /\ LET directive == Trim(GenToken[1].payload)
           use_stmt == Trim(TrimStartMatches(directive, "use"))
       IN gen' =
           IF StartsWithKeyword(directive, "use")
           THEN [gen EXCEPT
                    !.k = @ + 1,
                    !.imports =
                        Append(@, IF use_stmt[Len(use_stmt)] # ";"
                                  THEN <<"use">> \o use_stmt \o <<";">>
                                  ELSE directive)]
           ELSE IF StartsWithKeyword(directive, "dep")
           THEN [gen EXCEPT
                    !.k = @ + 1,
                    !.needs_cargo = TRUE,
                    !.dependencies =
                        Append(@, Trim(TrimStartMatches(directive, "dep")))]
           ELSE IF StartsWithCrate(directive, "once_cell")
           THEN [gen EXCEPT
                    !.k = @ + 1,
                    !.has_lazy = TRUE,
                    !.needs_cargo = TRUE,
                    !.dependencies = Append(@, <<"once_cell = \"1\"">>)]
           ELSE IF StartsWithCrate(directive, "rusqlite")
           THEN [gen EXCEPT
                    !.k = @ + 1,
                    !.needs_cargo = TRUE,
                    !.dependencies =
                        Append(@, <<"rusqlite = { version = \"0.32\", ...">>)]
           ELSE [gen EXCEPT !.k = @ + 1]
    /\ UNCHANGED exceptGen

\* generator.rs line 105: a Declaration token adds nothing in this loop.
GenSkipDeclaration ==
    /\ AtKind("Declaration")
    /\ gen' = [gen EXCEPT !.k = @ + 1]
    /\ UNCHANGED exceptGen

\* generator.rs lines 111-120: the runtime import, inserted at the head of
\* the imports, and what it does to needs_cargo.
RuntimeImport(g) ==
    IF g.has_request \/ g.has_response_control
    THEN [imports |->
              <<<<"use",
                  "rsp_runtime::{Request, Params, Cookies, Headers, escape_html}",
                  ";">>>> \o g.imports,
          needs_cargo |-> TRUE]
    ELSE IF g.has_escape_html
    THEN [imports |->
              <<<<"use", "rsp_runtime::escape_html", ";">>>> \o g.imports,
          needs_cargo |-> TRUE]
    ELSE [imports |-> g.imports, needs_cargo |-> g.needs_cargo]

\* generator.rs lines 122-124: the Lazy import, unless the imports contain
\* "use once_cell" already.
LazyImport(has_lazy, imports) ==
    LET contains_use_once_cell ==
            \E l \in DOMAIN imports :
                \E i \in 1..(Len(imports[l]) - 1) :
                    /\ imports[l][i] = "use"
                    /\ Contains(<<imports[l][i + 1]>>, "once_cell")
    IN IF has_lazy /\ ~contains_use_once_cell
       THEN <<<<"use", "once_cell::sync::Lazy", ";">>>> \o imports
       ELSE imports

\* generator.rs lines 126-130.
RequestInit(g) ==
    IF g.has_request \/ g.has_response_control
    THEN <<Statement("code", <<"let req = Request::new();">>),
           Statement("code", <<"let _ = &req;">>)>>
    ELSE <<>>

\* generator.rs lines 111-226: the imports are completed and the source is
\* formatted: imports, static code, and a render function whose body is the
\* request construction followed by the render code.
GenFinish ==
    /\ gen.at = "loops"
    /\ gen.k = Len(gen.parsed.declarations) + Len(gen.parsed.tokens)
    /\ LET rt == RuntimeImport(gen)
           imports == LazyImport(gen.has_lazy, rt.imports)
       IN gen' = [gen EXCEPT
              !.at = "done",
              !.imports = imports,
              !.needs_cargo = rt.needs_cargo,
              !.result =
                  [source |-> [imports |-> imports,
                               static_code |-> gen.static_code,
                               render |-> RequestInit(gen)
                                              \o gen.render_code],
                   needs_cargo |-> rt.needs_cargo,
                   dependencies |-> gen.dependencies]]
    /\ UNCHANGED exceptGen

(* ------------- first invocation: the values across the ABI ------------- *)

\* Template code that pushes onto HEADERS, the cell having no helper.
PushHeader(name, value) ==
    [op |-> "push_header", s1 |-> name, s2 |-> value, n |-> 0]

\* The calls a render makes, one of them per element.  Names and values of
\* cookies and headers are sequences of characters; urls stay whole, ""
\* being the empty url.
CallPool ==
    LET names == {<<>>, <<"a">>, <<"a", ":">>, <<"\n">>}
        values == {<<>>, <<"b", ":">>, <<"\t">>}
    IN {header(404), header_url(""), header_url("/login")}
           \cup {SetCookie(n, v, 3600) : n \in names, v \in values}
           \cup {CleanCookie(n) : n \in names}
           \cup {PushHeader(n, v) : n \in names, v \in values}

RECURSIVE CallSeqs(_)
CallSeqs(n) ==
    IF n = 0 THEN {<<>>}
    ELSE LET shorter == CallSeqs(n - 1)
         IN shorter \cup {Append(s, c) : s \in shorter, c \in CallPool}

\* Faulty variant of WireApply: header_url leaves the status alone.
WireApplyUrlKeepsStatus(cells, c) ==
    CASE c.op = "push_header" ->
             [cells EXCEPT !.headers = Append(@, <<c.s1, c.s2>>)]
      [] c.op = "CleanCookie" ->
             [cells EXCEPT !.cookies = Append(@, <<c.s1, <<>>, -1>>)]
      [] c.op = "header_url" -> [cells EXCEPT !.redirect = <<c.s1>>]
      [] OTHER -> ApplyCall(cells, c)

\* generator.rs lines 145-160, the strings being sequences of characters:
\* what one call does to the cells.
WireApply(cells, c) ==
    CASE c.op = "push_header" ->
             [cells EXCEPT !.headers = Append(@, <<c.s1, c.s2>>)]
      [] c.op = "CleanCookie" ->
             [cells EXCEPT !.cookies = Append(@, <<c.s1, <<>>, -1>>)]
      [] OTHER -> ApplyCall(cells, c)

\* generator.rs lines 138-171: render runs the template's code on the
\* calling thread's cells as they are.
RECURSIVE RunTemplate(_, _)
RunTemplate(cells, calls) ==
    IF calls = <<>> THEN cells
    ELSE RunTemplate(WireApply(cells, Head(calls)), Tail(calls))

Digits == <<"0", "1", "2", "3", "4", "5", "6", "7", "8", "9">>

\* format!("{}", max_age) for an i64.
FormatInt(n) ==
    LET RECURSIVE FormatNat(_)
        FormatNat(m) ==
            IF m < 10 THEN <<Digits[m + 1]>>
            ELSE Append(FormatNat(m \div 10), Digits[(m % 10) + 1])
    IN IF n < 0 THEN <<"-">> \o FormatNat(-n) ELSE FormatNat(n)

\* Faulty variant of ParseInt: a sign is not accepted.
ParseIntUnsigned(str) ==
    LET RECURSIVE Value(_)
        Value(ds) ==
            IF ds = <<>> THEN 0
            ELSE 10 * Value(SubSeq(ds, 1, Len(ds) - 1))
                 + (CHOOSE d \in 0..9 : Digits[d + 1] = ds[Len(ds)])
    IN IF str # <<>> /\ \A i \in DOMAIN str :
                            \E d \in 1..10 : Digits[d] = str[i]
       THEN Value(str)
       ELSE 0

\* loader.rs line 159: parts[2].parse().unwrap_or(0) for an i64: an optional
\* sign and at least one digit, 0 for anything else.
ParseInt(str) ==
    LET signed == str # <<>> /\ str[1] \in {"-", "+"}
        body == IF signed THEN Tail(str) ELSE str
        RECURSIVE Value(_)
        Value(ds) ==
            IF ds = <<>> THEN 0
            ELSE 10 * Value(SubSeq(ds, 1, Len(ds) - 1))
                 + (CHOOSE d \in 0..9 : Digits[d + 1] = ds[Len(ds)])
    IN IF body # <<>> /\ \A i \in DOMAIN body :
                             \E d \in 1..10 : Digits[d] = body[i]
       THEN IF signed /\ str[1] = "-" THEN -Value(body) ELSE Value(body)
       ELSE 0

\* Vec<String>::join(sep).
RECURSIVE Join(_, _)
Join(strs, sep) ==
    IF strs = <<>> THEN <<>>
    ELSE IF Len(strs) = 1 THEN strs[1]
    ELSE strs[1] \o <<sep>> \o Join(Tail(strs), sep)

\* str.split(sep): the pieces between separators, one piece at least.
RECURSIVE Split(_, _)
Split(str, sep) ==
    IF \A i \in DOMAIN str : str[i] # sep THEN <<str>>
    ELSE LET n == CHOOSE i \in DOMAIN str :
                      str[i] = sep /\ \A j \in 1..(i - 1) : str[j] # sep
         IN <<SubSeq(str, 1, n - 1)>>
                \o Split(SubSeq(str, n + 1, Len(str)), sep)

\* Faulty variant of SplitN2: the string is cut at its last separator.
SplitN2AtLast(str, sep) ==
    IF \A i \in DOMAIN str : str[i] # sep THEN <<str>>
    ELSE LET n == CHOOSE i \in DOMAIN str :
                      str[i] = sep
                      /\ \A j \in (i + 1)..Len(str) : str[j] # sep
         IN <<SubSeq(str, 1, n - 1), SubSeq(str, n + 1, Len(str))>>

\* str.splitn(2, sep): cut at the first separator, if there is one.
SplitN2(str, sep) ==
    IF \A i \in DOMAIN str : str[i] # sep THEN <<str>>
    ELSE LET n == CHOOSE i \in DOMAIN str :
                      str[i] = sep /\ \A j \in 1..(i - 1) : str[j] # sep
         IN <<SubSeq(str, 1, n - 1), SubSeq(str, n + 1, Len(str))>>

\* generator.rs lines 196-206: the artifact's get_cookies.
get_cookies(cookies) ==
    Join([i \in DOMAIN cookies |->
              cookies[i][1] \o <<"\t">> \o cookies[i][2] \o <<"\t">>
                  \o FormatInt(cookies[i][3])], "\n")

\* generator.rs lines 208-218: the artifact's get_headers.
get_headers(headers) ==
    Join([i \in DOMAIN headers |->
              headers[i][1] \o <<":">> \o headers[i][2]], "\n")

\* The elements of a sequence that are not <<>>, in order (filter_map).
RECURSIVE FilterMap(_)
FilterMap(options) ==
    IF options = <<>> THEN <<>>
    ELSE Head(options) \o FilterMap(Tail(options))

\* loader.rs lines 148-166.
parse_cookies(s) ==
    IF s = <<>> THEN <<>>
    ELSE LET lines == Split(s, "\n")
         IN FilterMap([i \in DOMAIN lines |->
                LET parts == Split(lines[i], "\t")
                IN IF Len(parts) >= 3
                   THEN <<<<parts[1], parts[2], ParseInt(parts[3])>>>>
                   ELSE <<>>])

\* loader.rs lines 168-182.
parse_headers(s) ==
    IF s = <<>> THEN <<>>
    ELSE LET lines == Split(s, "\n")
         IN FilterMap([i \in DOMAIN lines |->
                LET parts == SplitN2(lines[i], ":")
                IN IF Len(parts) = 2
                   THEN <<<<parts[1], parts[2]>>>>
                   ELSE <<>>])

\* No invocation is being followed.
NoWire ==
    [calls |-> <<>>, at |-> "idle", first |-> TRUE,
     cells |-> ResponseDefault, cookies_text |-> <<>>, headers_text |-> <<>>,
     result |-> ResponseDefault]

\* loader.rs lines 63-66: the library was opened just now, so the cells of
\* the calling thread hold their initial values; calls is what the
\* template's code does in a render.
WireStart(calls) == [NoWire EXCEPT !.calls = calls, !.at = "render"]

\* loader.rs lines 88-95: render is called.
WireRender ==
    /\ wire.at = "render"
    /\ wire' = [wire EXCEPT
           !.at = "status",
           !.cells = RunTemplate(@, wire.calls)]
    /\ UNCHANGED exceptWire

\* loader.rs line 96 and generator.rs lines 179-182.
WireStatus ==
    /\ wire.at = "status"
    /\ wire' = [wire EXCEPT
           !.at = "redirect",
           !.result.status = wire.cells.status]
    /\ UNCHANGED exceptWire

\* loader.rs lines 98-112 and generator.rs lines 184-194.
WireRedirect ==
    /\ wire.at = "redirect"
    /\ wire' = [wire EXCEPT
           !.at = "cookies",
           !.result.redirect = LoaderRedirect(wire.cells.redirect)]
    /\ UNCHANGED exceptWire

\* loader.rs lines 114-125 and generator.rs lines 196-206.
WireCookies ==
    /\ wire.at = "cookies"
    /\ LET s == get_cookies(wire.cells.cookies)
       IN wire' = [wire EXCEPT
              !.at = "headers",
              !.cookies_text = s,
              !.result.cookies = parse_cookies(s)]
    /\ UNCHANGED exceptWire

\* loader.rs lines 127-140 and generator.rs lines 208-218: the last getter;
\* render_with_response returns.
WireHeaders ==
    /\ wire.at = "headers"
    /\ LET s == get_headers(wire.cells.headers)
       IN wire' = [wire EXCEPT
              !.at = "done",
              !.headers_text = s,
              !.result.headers = parse_headers(s)]
    /\ UNCHANGED exceptWire

\* loader.rs lines 49-61: the same handle is invoked once more, on the
\* same thread, by a later call.
WireAgain ==
    /\ wire.at = "done"
    /\ wire.first
    /\ wire' = [wire EXCEPT !.at = "render", !.first = FALSE]
    /\ UNCHANGED exceptWire

(* ------------------------------ Request::ip ---------------------------- *)

\* The values a forwarding header can hold: strings of digits, commas and
\* blanks.
RECURSIVE HeaderValues(_)
HeaderValues(n) ==
    IF n = 0 THEN {<<>>}
    ELSE LET shorter == HeaderValues(n - 1)
         IN shorter \cup {Append(v, c) : v \in shorter, c \in {"1", ",", " "}}

\* request.rs lines 39-44: Headers::str, the map holding <<value>> under a
\* name that is present and <<>> under one that is not.
HeadersStr(ua, key) == IF ua[key] = <<>> THEN <<>> ELSE ua[key][1]

\* No Request::ip call is being followed.
NoIp == [ua |-> [k \in {"x-forwarded-for", "x-real-ip"} |-> <<>>],
         at |-> "idle", s |-> <<>>, next |-> <<>>, result |-> <<>>]

\* request.rs lines 148-154: the headers Request::new read from HTTP_*.
IpStart(forwarded, real) ==
    [NoIp EXCEPT !.ua = [k \in {"x-forwarded-for", "x-real-ip"} |->
                            IF k = "x-forwarded-for" THEN forwarded ELSE real],
                 !.at = "str"]

\* request.rs lines 203-204: self.ua.str("x-forwarded-for").
IpLookup ==
    /\ ip.at = "str"
    /\ ip' = [ip EXCEPT !.at = "split",
                        !.s = HeadersStr(ip.ua, "x-forwarded-for")]
    /\ UNCHANGED exceptIp

\* request.rs lines 205-206: .split(',').next(), an Option: <<piece>> or
\* <<>>.
IpFirst ==
    /\ ip.at = "split"
    /\ LET pieces == Split(ip.s, ",")
       IN ip' = [ip EXCEPT !.at = "map",
                           !.next = IF pieces = <<>> THEN <<>>
                                    ELSE <<pieces[1]>>]
    /\ UNCHANGED exceptIp

\* request.rs lines 207-208: .map(|s| s.trim()).unwrap_or_else(|| x-real-ip).
IpReturn ==
    /\ ip.at = "map"
    /\ ip' = [ip EXCEPT !.at = "done",
                        !.result = IF ip.next # <<>> THEN Trim(ip.next[1])
                                   ELSE HeadersStr(ip.ua, "x-real-ip")]
    /\ UNCHANGED exceptIp

(* ---------------------------- register_cleanup ------------------------- *)

\* The engines a process can hand to register_cleanup.
Engines == {"e1", "e2"}

\* No register_cleanup call was made: engine.rs lines 172-173, the statics
\* CLEANUP_REGISTERED and ENGINE_TO_CLEANUP ("" = None); handlers counts the
\* handlers installed, winner is the argument of the call whose
\* compare_exchange succeeded, unloaded the engine the handler unloaded.
NoCleanup ==
    [registered |-> FALSE, engine |-> "", handlers |-> 0, winner |-> "",
     caller |-> [t \in Threads |-> [at |-> "idle", engine |-> ""]],
     ncalls |-> 0, unloaded |-> "", exited |-> FALSE]

\* Faulty variant of CompareExchangeOk: the exchange succeeds whatever the
\* flag holds.
CompareExchangeAlwaysOk(flag) == TRUE

\* engine.rs lines 176-178: compare_exchange(false, true, ..).is_ok().
CompareExchangeOk(flag) == flag = FALSE

\* engine.rs line 175: register_cleanup(engine) is entered.
RegisterCall(t, e) ==
    /\ ~cleanup.exited
    /\ cleanup.caller[t].at = "idle"
    /\ cleanup.ncalls < MaxRegister
    /\ cleanup' = [cleanup EXCEPT
           !.ncalls = @ + 1,
           !.caller[t] = [at |-> "cas", engine |-> e]]
    /\ UNCHANGED exceptCleanup

\* engine.rs lines 176-179: the compare-and-swap; the call returns at once
\* when it fails.
RegisterCas(t) ==
    /\ ~cleanup.exited
    /\ cleanup.caller[t].at = "cas"
    /\ cleanup' =
           IF CompareExchangeOk(cleanup.registered)
           THEN [cleanup EXCEPT
                    !.registered = TRUE,
                    !.winner = cleanup.caller[t].engine,
                    !.caller[t].at = "store"]
           ELSE [cleanup EXCEPT !.caller[t].at = "idle"]
    /\ UNCHANGED exceptCleanup

\* engine.rs lines 180-182: ENGINE_TO_CLEANUP = Some(engine.clone()).
RegisterStore(t) ==
    /\ ~cleanup.exited
    /\ cleanup.caller[t].at = "store"
    /\ cleanup' = [cleanup EXCEPT
           !.engine = cleanup.caller[t].engine,
           !.caller[t].at = "install"]
    /\ UNCHANGED exceptCleanup

\* engine.rs lines 184-192: ctrlc::set_handler installs the handler and the
\* call returns.
RegisterInstall(t) ==
    /\ ~cleanup.exited
    /\ cleanup.caller[t].at = "install"
    /\ cleanup' = [cleanup EXCEPT
           !.handlers = @ + 1,
           !.caller[t].at = "idle"]
    /\ UNCHANGED exceptCleanup

\* engine.rs lines 185-190: an interrupt arrives; the handler unloads the
\* engine ENGINE_TO_CLEANUP holds and the process exits.
Interrupt ==
    /\ ~cleanup.exited
    /\ cleanup.handlers > 0
    /\ cleanup' = [cleanup EXCEPT
           !.unloaded = cleanup.engine,
           !.exited = TRUE]
    /\ UNCHANGED exceptCleanup

(* ------------------------------- include ------------------------------- *)

\* Path::join: an absolute path replaces the base.
PathJoin(base, path) ==
    IF path # <<>> /\ path[1] = "/" THEN path ELSE base \o path

\* Faulty variant of PathExists: every path is taken to exist.
PathExistsAlways(entry) == TRUE

\* Path::exists for what the file system holds at the path: nothing
\* ("missing"), a directory ("dir") or a template.
PathExists(entry) == entry # "missing"

\* No include call is being followed.
NoInclude ==
    [docroot |-> <<>>, relative_path |-> <<>>, entry |-> "missing",
     at |-> "idle", full_path |-> <<>>, used |-> {}, result |-> <<>>]

\* engine.rs line 146: include(relative_path) on an engine whose docroot was
\* set, entry being what the file system holds at the joined path.
IncludeStart(docroot, relative_path, entry) ==
    [NoInclude EXCEPT !.docroot = docroot, !.relative_path = relative_path,
                      !.entry = entry, !.at = "join"]

\* engine.rs lines 147-148: the docroot is cloned under its own mutex and
\* joined with the argument.
IncludeJoin ==
    /\ inc.at = "join"
    /\ inc' = [inc EXCEPT
           !.at = "exists",
           !.used = @ \cup {"docroot mutex"},
           !.full_path = PathJoin(inc.docroot, inc.relative_path)]
    /\ UNCHANGED exceptInc

\* engine.rs lines 150-155: the path does not exist, the comment is returned.
IncludeMissing ==
    /\ inc.at = "exists"
    /\ ~PathExists(inc.entry)
    /\ inc' = [inc EXCEPT
           !.at = "done",
           !.result = [kind |-> "Ok",
                       content |-> <<"<!-- Include error: ",
                                     inc.relative_path, " not found -->">>]]
    /\ UNCHANGED exceptInc

\* engine.rs lines 157 and 136-138: render_file reads the file; what is not
\* a readable file (a directory, a path that is not there) is RspError::Io.
IncludeRead ==
    /\ inc.at = "exists"
    /\ PathExists(inc.entry)
    /\ inc' = IF inc.entry \in Templates
              THEN [inc EXCEPT !.at = "render", !.used = @ \cup {"read"}]
              ELSE [inc EXCEPT !.at = "done", !.used = @ \cup {"read"},
                               !.result = [kind |-> "Err", content |-> "Io"]]
    /\ UNCHANGED exceptInc

\* engine.rs lines 138, 105-134 and 157-158: render parses, generates,
\* compiles and invokes under the loader mutex; its error is returned as it
\* is and its content otherwise.
IncludeRender ==
    /\ inc.at = "render"
    /\ \/ /\ ~ParseOk(inc.entry)
          /\ inc' = [inc EXCEPT
                 !.at = "done", !.used = @ \cup {"parse"},
                 !.result = [kind |-> "Err", content |-> "Parse"]]
       \/ /\ ParseOk(inc.entry)
          /\ inc' = [inc EXCEPT
                 !.at = "done", !.used = @ \cup {"parse", "compile"},
                 !.result = [kind |-> "Err", content |-> "Compile"]]
       \/ /\ ParseOk(inc.entry)
          /\ \E r \in {[kind |-> "Err", content |-> "Load"],
                       [kind |-> "Ok", content |-> <<"content of", inc.entry>>]} :
                 inc' = [inc EXCEPT
                     !.at = "done",
                     !.used = @ \cup {"parse", "compile", "loader mutex"},
                     !.result = r]
    /\ UNCHANGED exceptInc

(* ------------------- inbound headers and the environment --------------- *)

\* The names of the inbound headers of the model, as the HTTP library gives
\* them (lowercase), character by character.
HeaderNames == {<<"a">>, <<"c">>, <<"x", "-", "a">>}

\* main.rs line 161: format!("HTTP_{}", name.replace('-', "_").to_uppercase()).
EnvKeyOf(name) ==
    <<"HTTP_">> \o [i \in DOMAIN name |->
                       CASE name[i] = "-" -> "_"
                         [] name[i] = "a" -> "A"
                         [] name[i] = "c" -> "C"
                         [] name[i] = "x" -> "X"
                         [] OTHER -> name[i]]

\* request.rs lines 150-151: key[5..].replace('_', "-").to_lowercase().
HeaderNameOf(key) ==
    [i \in DOMAIN Tail(key) |->
        CASE Tail(key)[i] = "_" -> "-"
          [] Tail(key)[i] = "A" -> "a"
          [] Tail(key)[i] = "C" -> "c"
          [] Tail(key)[i] = "X" -> "x"
          [] OTHER -> Tail(key)[i]]

\* The process has handled no request: no HTTP_* variable is set.  A
\* variable or a header holds <<value>>, or <<>> when it is not there; the
\* value of a header is the id of the request that sent it.
NoHdr ==
    [env |-> [k \in {EnvKeyOf(n) : n \in HeaderNames} |-> <<>>],
     nreq |-> 0, at |-> "idle",
     inbound |-> [n \in HeaderNames |-> <<>>],
     seen |-> [n \in HeaderNames |-> <<>>]]

\* main.rs lines 152-167: a request arrives with the headers sent; the
\* front-end sets one HTTP_* variable per inbound header and calls the
\* engine.
HdrRequest(sent) ==
    /\ hdr.at = "idle"
    /\ hdr.nreq < MaxRequests
    /\ hdr' = [hdr EXCEPT
           !.nreq = @ + 1,
           !.at = "render",
           !.inbound = [n \in HeaderNames |->
                           IF n \in sent THEN <<hdr.nreq + 1>> ELSE <<>>],
           !.env = [k \in DOMAIN hdr.env |->
                       IF \E n \in sent : EnvKeyOf(n) = k
                       THEN <<hdr.nreq + 1>> ELSE hdr.env[k]]]
    /\ UNCHANGED exceptHdr

\* request.rs lines 148-154: the template's render builds the Request, whose
\* header map holds every HTTP_* variable of the environment; the request is
\* answered.
HdrRequestNew ==
    /\ hdr.at = "render"
    /\ hdr' = [hdr EXCEPT
           !.at = "idle",
           !.seen = [n \in HeaderNames |->
                        IF \E k \in DOMAIN hdr.env :
                               hdr.env[k] # <<>> /\ HeaderNameOf(k) = n
                        THEN hdr.env[CHOOSE k \in DOMAIN hdr.env :
                                         /\ hdr.env[k] # <<>>
                                         /\ HeaderNameOf(k) = n]
                        ELSE <<>>]]
    /\ UNCHANGED exceptHdr

(* ------------------ runtime: GlobalState::get_or_init ------------------ *)

\* The keys the artifacts share values under.
StateKeys == {"db", "cfg"}

\* GLOBAL_STATE (state.rs line 6) and its callers: data maps a key to the
\* stored Arc, 0 for a key that is absent, and typed to the type the Arc
\* holds ("T" of a get_or_init caller, "usize" of the exported function);
\* an Arc is named by the number of the initializer run that made it.  at,
\* key and ret are each thread's position in its call, the key the call is
\* for and the Arc it returned; runs counts the initializer runs per key and
\* ncalls the calls.
NoGlobalState ==
    [data |-> [k \in StateKeys |-> 0],
     typed |-> [k \in StateKeys |-> "T"],
     at |-> [t \in Threads |-> "idle"],
     key |-> [t \in Threads |-> "db"],
     ret |-> [t \in Threads |-> 0],
     runs |-> [k \in StateKeys |-> 0],
     ninit |-> 0,
     ncalls |-> 0]

\* state.rs lines 29-33 and 81-84: thread t calls get_or_init (entry "read")
\* or rsp_state_get_or_init (entry "contains") for the key k.
StateCall(t, k, entry) ==
    /\ gstate.at[t] = "idle"
    /\ gstate.ncalls < MaxStateCalls
    /\ gstate' = [gstate EXCEPT !.at[t] = entry, !.key[t] = k, !.ret[t] = 0,
                                !.ncalls = @ + 1]
    /\ UNCHANGED exceptGstate

\* state.rs lines 34-41: under the read lock, return the stored Arc of a key
\* that is present and holds a T; the guard is dropped at line 41.
GetOrInitRead(t) ==
    /\ gstate.at[t] = "read"
    /\ LET k == gstate.key[t]
       IN gstate' =
             IF gstate.data[k] # 0 /\ gstate.typed[k] = "T"
             THEN [gstate EXCEPT !.at[t] = "idle", !.ret[t] = gstate.data[k]]
             ELSE [gstate EXCEPT !.at[t] = "write"]
    /\ UNCHANGED exceptGstate

\* state.rs lines 43-49: take the write lock, run the initializer, insert
\* its Arc under the key, whatever the map holds by now, and return it.
GetOrInitWrite(t) ==
    /\ gstate.at[t] = "write"
    /\ LET k == gstate.key[t]
           v == gstate.ninit + 1
       IN gstate' = [gstate EXCEPT !.at[t] = "idle", !.ret[t] = v,
                                   !.data[k] = v, !.typed[k] = "T",
                                   !.runs[k] = @ + 1, !.ninit = v]
    /\ UNCHANGED exceptGstate

\* state.rs line 89: state.contains(&key_str), under the read lock.
FfiStateContains(t) ==
    /\ gstate.at[t] = "contains"
    /\ gstate' = [gstate EXCEPT !.at[t] =
                     IF gstate.data[gstate.key[t]] # 0 THEN "get" ELSE "init"]
    /\ UNCHANGED exceptGstate

\* state.rs lines 90-93: init_fn() runs outside any lock and state.set
\* stores its pointer under the write lock; a null pointer is not stored.
FfiStateInit(t, isNull) ==
    /\ gstate.at[t] = "init"
    /\ LET k == gstate.key[t]
           v == gstate.ninit + 1
       IN gstate' = IF isNull
                    THEN [gstate EXCEPT !.at[t] = "get", !.runs[k] = @ + 1]
                    ELSE [gstate EXCEPT !.at[t] = "get", !.data[k] = v,
                                        !.typed[k] = "usize",
                                        !.runs[k] = @ + 1, !.ninit = v]
    /\ UNCHANGED exceptGstate

\* state.rs lines 96-101: state.get::<usize>(&key_str), a null pointer for
\* a key that is absent or holds another type.
FfiStateGet(t) ==
    /\ gstate.at[t] = "get"
    /\ LET k == gstate.key[t]
       IN gstate' = [gstate EXCEPT
                       !.at[t] = "idle",
                       !.ret[t] = IF gstate.data[k] # 0
                                     /\ gstate.typed[k] = "usize"
                                  THEN gstate.data[k] ELSE 0]
    /\ UNCHANGED exceptGstate

(* ----------------- the interrupt handler and the loader ---------------- *)

\* engine.rs lines 184-192: the handler installed for the engine the server
\* renders with; no interrupt was delivered yet.  at is the handler's
\* position, busy whether a thread was inside render_with_response when the
\* interrupt arrived.
NoHandler == [at |-> "none", busy |-> FALSE]

\* engine.rs line 184: an interrupt is delivered and the ctrlc thread calls
\* the closure, which goes for the loader mutex.
InterruptDelivered ==
    /\ handler.at = "none"
    /\ handler' = [at |-> "lock",
                   busy |-> \E t \in Threads : pc[t] \in {"open", "invoke"}]
    /\ UNCHANGED exceptHandler

\* engine.rs lines 186-188 and loader.rs lines 143-145:
\* engine.loader.lock().map(|mut l| l.unload_all()) waits for the mutex,
\* clears the map, which closes every library, and drops the guard.
HandlerUnloadAll ==
    /\ handler.at = "lock"
    /\ MutexFree(mutex)
    /\ libraries' = [p \in Paths |-> NoEntry]
    /\ live' = {}
    /\ tls' = [i \in HandleIds |-> FreshCells]
    /\ handler' = [handler EXCEPT !.at = "exit"]
    /\ UNCHANGED <<pc, req, nreq, env, fsVars, mutex, callVars, last,
                   ntouch>>
    /\ UNCHANGED <<parser, ffi, gen, wire, ip, cleanup, inc, hdr, gstate>>

\* engine.rs line 190: std::process::exit(0); no thread takes a step after.
HandlerExit ==
    /\ handler.at = "exit"
    /\ handler' = [handler EXCEPT !.at = "exited"]
    /\ UNCHANGED exceptHandler

(* --------------------------- specifications ---------------------------- *)

Init ==
    /\ EngineInit
    /\ parser = NoParse
    /\ ffi = NoFfi
    /\ gen = NoGen
    /\ wire = NoWire
    /\ ip = NoIp
    /\ cleanup = NoCleanup
    /\ inc = NoInclude
    /\ hdr = NoHdr
    /\ gstate = NoGlobalState
    /\ handler = NoHandler

Next ==
    \/ \E t \in Threads :
          \/ HandleRequest(t)
          \/ CompileCacheHit(t)
          \/ CompileWriteSource(t)
          \/ ToolchainFail(t)
          \/ RustcLink(t)
          \/ CargoBuildCopy(t)
          \/ CargoBuildNoLib(t)
          \/ WriteDone(t)
          \/ LoaderStat(t)
          \/ LoaderOpen(t)
          \/ LoaderInvoke(t)
    \/ UnloadAll
    \/ \E p \in Paths : Touch(p)

\* Threads render concurrently.
Spec == Init /\ [][Next]_vars

\* Calls made one after another: a request is taken only when no other
\* request is being handled.
SeqHandleRequest(t) ==
    /\ \A u \in Threads : pc[u] = "idle"
    /\ HandleRequest(t)

NextSeq ==
    \/ \E t \in Threads :
          \/ SeqHandleRequest(t)
          \/ CompileCacheHit(t)
          \/ CompileWriteSource(t)
          \/ ToolchainFail(t)
          \/ RustcLink(t)
          \/ CargoBuildCopy(t)
          \/ CargoBuildNoLib(t)
          \/ WriteDone(t)
          \/ LoaderStat(t)
          \/ LoaderOpen(t)
          \/ LoaderInvoke(t)
    \/ UnloadAll
    \/ \E p \in Paths : Touch(p)

SpecSeq == Init /\ [][NextSeq]_vars

\* One Parser::parse call on any input, followed character by character.
InitParse ==
    /\ EngineInit
    /\ parser \in {ParseStart(i) : i \in Inputs}
    /\ ffi = NoFfi
    /\ gen = NoGen
    /\ wire = NoWire
    /\ ip = NoIp
    /\ cleanup = NoCleanup
    /\ inc = NoInclude
    /\ hdr = NoHdr
    /\ gstate = NoGlobalState
    /\ handler = NoHandler

NextParse ==
    \/ ParseEscape
    \/ ParseOpenTag
    \/ ParseTextChar
    \/ ParseTagChar
    \/ ParseCloseTag
    \/ ParseUnclosed
    \/ ParseEnd

SpecParse == InitParse /\ [][NextParse]_vars

\* One render_with_response call on a library that was opened, whatever it
\* exports, followed from line 68 on.
InitFfi ==
    /\ EngineInit
    /\ parser = NoParse
    /\ ffi \in {FfiStart(e, n, m) : e \in SUBSET Symbols,
                                    n \in SUBSET PointerGetters,
                                    m \in SUBSET PointerGetters}
    /\ gen = NoGen
    /\ wire = NoWire
    /\ ip = NoIp
    /\ cleanup = NoCleanup
    /\ inc = NoInclude
    /\ hdr = NoHdr
    /\ gstate = NoGlobalState
    /\ handler = NoHandler

NextFfi ==
    \/ FfiBind
    \/ FfiRender
    \/ FfiStatus
    \/ FfiGetter
    \/ FfiReturn

SpecFfi == InitFfi /\ [][NextFfi]_vars

\* One generate_full_source call on any parsed template, followed
\* declaration by declaration and token by token.
InitGen ==
    /\ EngineInit
    /\ parser = NoParse
    /\ ffi = NoFfi
    /\ gen \in {GenStart(ParsedOf(ts)) : ts \in TokenStreams(MaxTokens)}
    /\ wire = NoWire
    /\ ip = NoIp
    /\ cleanup = NoCleanup
    /\ inc = NoInclude
    /\ hdr = NoHdr
    /\ gstate = NoGlobalState
    /\ handler = NoHandler

NextGen ==
    \/ GenDeclaration
    \/ GenText
    \/ GenExpression
    \/ GenCode
    \/ GenDirective
    \/ GenSkipDeclaration
    \/ GenFinish

SpecGen == InitGen /\ [][NextGen]_vars

\* The first invocation of a freshly loaded artifact, and the one after it,
\* for any calls the template's code makes, followed getter by getter.
InitWire ==
    /\ EngineInit
    /\ parser = NoParse
    /\ ffi = NoFfi
    /\ gen = NoGen
    /\ wire \in {WireStart(calls) : calls \in CallSeqs(MaxCalls)}
    /\ ip = NoIp
    /\ cleanup = NoCleanup
    /\ inc = NoInclude
    /\ hdr = NoHdr
    /\ gstate = NoGlobalState
    /\ handler = NoHandler

NextWire ==
    \/ WireRender
    \/ WireStatus
    \/ WireRedirect
    \/ WireCookies
    \/ WireHeaders
    \/ WireAgain

SpecWire == InitWire /\ [][NextWire]_vars

\* One Request::ip call on a request with any forwarding headers.
InitIp ==
    /\ EngineInit
    /\ parser = NoParse
    /\ ffi = NoFfi
    /\ gen = NoGen
    /\ wire = NoWire
    /\ ip \in {IpStart(f, r) :
                  f \in {<<>>} \cup {<<v>> : v \in HeaderValues(MaxHeaderLen)},
                  r \in {<<>>, <<<<"9">>>>}}
    /\ cleanup = NoCleanup
    /\ inc = NoInclude
    /\ hdr = NoHdr
    /\ gstate = NoGlobalState
    /\ handler = NoHandler

NextIp ==
    \/ IpLookup
    \/ IpFirst
    \/ IpReturn

SpecIp == InitIp /\ [][NextIp]_vars

\* register_cleanup called by any threads with any engines, and an
\* interrupt.
InitCleanup ==
    /\ EngineInit
    /\ parser = NoParse
    /\ ffi = NoFfi
    /\ gen = NoGen
    /\ wire = NoWire
    /\ ip = NoIp
    /\ cleanup = NoCleanup
    /\ inc = NoInclude
    /\ hdr = NoHdr
    /\ gstate = NoGlobalState
    /\ handler = NoHandler

NextCleanup ==
    \/ \E t \in Threads :
          \/ \E e \in Engines : RegisterCall(t, e)
          \/ RegisterCas(t)
          \/ RegisterStore(t)
          \/ RegisterInstall(t)
    \/ Interrupt

SpecCleanup == InitCleanup /\ [][NextCleanup]_vars

\* One RspEngine::include call, for any docroot, argument and file system.
InitInclude ==
    /\ EngineInit
    /\ parser = NoParse
    /\ ffi = NoFfi
    /\ gen = NoGen
    /\ wire = NoWire
    /\ ip = NoIp
    /\ cleanup = NoCleanup
    /\ inc \in {IncludeStart(d, r, e) :
                   d \in {<<".">>, <<"www", "site">>},
                   r \in {<<"a.rsp">>, <<"sub", "b.rsp">>, <<"..", "c.rsp">>,
                          <<"/", "etc", "d.rsp">>},
                   e \in {"missing", "dir"} \cup Templates}
    /\ hdr = NoHdr
    /\ gstate = NoGlobalState
    /\ handler = NoHandler

NextInclude ==
    \/ IncludeJoin
    \/ IncludeMissing
    \/ IncludeRead
    \/ IncludeRender

SpecInclude == InitInclude /\ [][NextInclude]_vars

\* The characters Text payloads are made of: the five escape_string
\* replaces, and two it leaves alone.
RECURSIVE TextStrings(_)
TextStrings(n) ==
    IF n = 0 THEN {<<>>}
    ELSE LET shorter == TextStrings(n - 1)
         IN shorter \cup {Append(s, c) : s \in shorter,
                             c \in {"\\", "\"", "\n", "\r", "\t", "a", "n"}}

\* One generate_full_source call on a template that is one Text token, for
\* any payload.
InitEscape ==
    /\ EngineInit
    /\ parser = NoParse
    /\ ffi = NoFfi
    /\ gen \in {GenStart(ParsedOf(<<Token("Text", s)>>)) :
                   s \in TextStrings(MaxTextLen) \ {<<>>}}
    /\ wire = NoWire
    /\ ip = NoIp
    /\ cleanup = NoCleanup
    /\ inc = NoInclude
    /\ hdr = NoHdr
    /\ gstate = NoGlobalState
    /\ handler = NoHandler

NextEscape ==
    \/ GenText
    \/ GenFinish

SpecEscape == InitEscape /\ [][NextEscape]_vars

\* Requests handled one after another by the front-end, each with any of
\* the headers.
InitHdr ==
    /\ EngineInit
    /\ parser = NoParse
    /\ ffi = NoFfi
    /\ gen = NoGen
    /\ wire = NoWire
    /\ ip = NoIp
    /\ cleanup = NoCleanup
    /\ inc = NoInclude
    /\ hdr = NoHdr
    /\ gstate = NoGlobalState
    /\ handler = NoHandler

NextHdr ==
    \/ \E sent \in SUBSET HeaderNames : HdrRequest(sent)
    \/ HdrRequestNew

SpecHdr == InitHdr /\ [][NextHdr]_vars

\* Threads calling GlobalState::get_or_init and the exported
\* rsp_state_get_or_init concurrently, any key each.
InitGetOrInit ==
    /\ EngineInit
    /\ parser = NoParse
    /\ ffi = NoFfi
    /\ gen = NoGen
    /\ wire = NoWire
    /\ ip = NoIp
    /\ cleanup = NoCleanup
    /\ inc = NoInclude
    /\ hdr = NoHdr
    /\ gstate = NoGlobalState
    /\ handler = NoHandler

NextGetOrInit ==
    \E t \in Threads :
       \/ \E k \in StateKeys : StateCall(t, k, "read")
       \/ GetOrInitRead(t)
       \/ GetOrInitWrite(t)
       \/ \E k \in StateKeys : StateCall(t, k, "contains")
       \/ FfiStateContains(t)
       \/ \E isNull \in BOOLEAN : FfiStateInit(t, isNull)
       \/ FfiStateGet(t)

SpecGetOrInit == InitGetOrInit /\ [][NextGetOrInit]_vars

\* The server's threads rendering concurrently, with the interrupt handler
\* installed: an interrupt may arrive at any moment, and the process stops
\* when the handler exits.
InitInterrupt ==
    /\ EngineInit
    /\ parser = NoParse
    /\ ffi = NoFfi
    /\ gen = NoGen
    /\ wire = NoWire
    /\ ip = NoIp
    /\ cleanup = NoCleanup
    /\ inc = NoInclude
    /\ hdr = NoHdr
    /\ gstate = NoGlobalState
    /\ handler = NoHandler

NextInterrupt ==
    \/ handler.at # "exited" /\ Next
    \/ InterruptDelivered
    \/ HandlerUnloadAll
    \/ HandlerExit

\* A thread that holds the loader mutex goes on to the end of its call (the
\* invocation in progress returns); the handler, waiting in lock(), gets the
\* mutex if it is free again and again, and then goes on to exit.
SpecInterrupt ==
    /\ InitInterrupt
    /\ [][NextInterrupt]_vars
    /\ \A t \in Threads :
          WF_vars(handler.at # "exited" /\ (LoaderOpen(t) \/ LoaderInvoke(t)))
    /\ SF_vars(HandlerUnloadAll)
    /\ WF_vars(HandlerExit)

(* ------------------------------- claims -------------------------------- *)

\* Thread t is inside Loader::render_with_response.
InLoader(t) == pc[t] \in {"open", "invoke"}

\* Thread t's step runs the toolchain (rustc or cargo).
RunsToolchain(t) == pc[t] = "toolchain" /\ pc'[t] # "toolchain"

\* C1: the status, redirect, cookies and headers a render invocation returns
\* are those its own calls produce from the defaults (200, no redirect, no
\* cookies, no headers), whatever earlier invocations did.
C1_ResetOnEachInvocation ==
    last.result.kind = "Ok" =>
        last.result = Collected(RunCalls(ResponseDefault, last.prog))

\* C2: at most one thread is inside render_with_response at any moment, and
\* that thread holds the loader mutex.
C2_OneInvocationAtATime ==
    \A t \in Threads :
        InLoader(t) =>
            /\ mutex = t
            /\ \A u \in Threads : InLoader(u) => u = t

\* C2 witness: one thread is invoking an artifact while another has its
\* artifact path and waits for the mutex.
C2_Witness ==
    \E t, u \in Threads : pc[t] = "invoke" /\ pc[u] = "lock" /\ mutex = t

\* C3: the environment an artifact reads during a render holds, for every
\* variable, the value written for the request that triggered the render.
C3_EnvHandOffNotRaced ==
    (last.result.kind = "Ok" /\ ReadsRequest(last.file)) =>
        \A k \in EnvKeys : last.seen[k] = last.id

\* C4: every render_with_response call stats the artifact; the library is
\* opened afresh exactly when the map has no entry for the path or the
\* recorded mtime differs from the stat'ed one, and the fresh entry records
\* the stat'ed mtime; with an entry of equal mtime the handle is reused and
\* nothing is opened or closed.
C4_ReloadPolicy ==
    [][\A t \in Threads :
          LET p == lib_path[t]
              e == libraries[p]
              m == art[p].mtime
          IN /\ (pc[t] = "lock" /\ pc'[t] # "lock" /\ art[p].exists) =>
                   /\ modified'[t] = m
                   /\ IF e = NoEntry \/ e.modified # m
                      THEN /\ pc'[t] = "open"
                           /\ libraries'[p] = NoEntry
                           /\ \A h \in live' : h.path # p
                      ELSE /\ pc'[t] = "invoke"
                           /\ libraries' = libraries
                           /\ live' = live
             /\ (pc[t] = "open" /\ pc'[t] = "invoke") =>
                   /\ libraries'[p].modified = modified[t]
                   /\ \A h \in live : h.id # libraries'[p].handle
                   /\ \E h \in live' :
                         h.id = libraries'[p].handle /\ h.path = p
      ]_vars

\* C4 witness: a call found an entry with another mtime and has reopened the
\* library, recording the mtime of its stat.
C4_Witness ==
    \E t \in Threads :
        /\ pc[t] = "invoke"
        /\ decision[t] = "stale"
        /\ libraries[lib_path[t]].modified = modified[t]
        /\ \E h \in live : h.id = libraries[lib_path[t]].handle

\* C5: every entry of the loader map holds a handle opened from the version
\* of the file whose mtime the entry records.
C5_HandleMatchesRecordedMtime ==
    \A p \in Paths :
        libraries[p] # NoEntry =>
            \E h \in live :
                /\ h.id = libraries[p].handle
                /\ h.path = p
                /\ h.mtime = libraries[p].modified

\* C6: on reload the old handle is removed from the map and closed before
\* the new library is opened; the loader never holds two open handles for
\* one path, and every open handle is the one its path's entry holds.
C6_OneLiveHandlePerPath ==
    /\ \A h1, h2 \in live : (h1.path = h2.path \/ h1.id = h2.id) => h1 = h2
    /\ \A h \in live : libraries[h.path].handle = h.id
    /\ \A t \in Threads :
          pc[t] = "open" =>
              /\ libraries[lib_path[t]] = NoEntry
              /\ \A h \in live : h.path # lib_path[t]

\* C6 witness: a reload is under way: the stale entry is gone and its handle
\* closed, the new library not yet opened.
C6_Witness ==
    \E t \in Threads : pc[t] = "open" /\ decision[t] = "stale"

\* C7: when the artifact file exists, compile and compile_with_options
\* return its path at once: no source file or scratch project is written,
\* the toolchain is not run and the artifact file is left as it is.
C7_CacheHitIsNoOp ==
    [][\A t \in Threads :
          (pc[t] = "compile" /\ pc'[t] # "compile" /\ art[PathOf(t)].exists) =>
              /\ pc'[t] = "lock"
              /\ lib_path'[t] = PathOf(t)
              /\ UNCHANGED <<art, srcfile, project, built, toolran>>
      ]_vars

\* C7 witness: a package-path call found the artifact another call had
\* built and returned its path without a toolchain run.
C7_Witness ==
    \E t \in Threads :
        /\ pc[t] = "lock"
        /\ req[t].file = "ctl"
        /\ stages[t] = <<"parse", "generate">>
        /\ lib_path[t] = PathOf(t)
        /\ toolran[HashOf(t)]

\* The path every compile call returns is get_lib_path of the template's
\* hash, on the simple and on the package path.
SamePathForSameHash ==
    \A t \in Threads :
        lib_path'[t] # <<>> =>
            lib_path'[t] = <<"cache_dir", "lib", <<"sha256", req'[t].file>>, ".so">>

\* C8 as claimed: compiling the same hash always yields the same path, and
\* over a sequence of calls the toolchain is invoked at most once per hash.
C8_ToolchainAtMostOnce ==
    [][/\ SamePathForSameHash
       /\ \A t \in Threads : RunsToolchain(t) => ~toolran[HashOf(t)]
      ]_vars

\* C8 as amended: compiling the same hash always yields the same path, and
\* over a sequence of calls the toolchain is invoked only while the artifact
\* file does not exist (so never again once a call has produced it; a failed
\* run, or a package build that leaves no library to copy, produces none and
\* the next call runs the toolchain again).
C8_ToolchainOnlyWhileAbsent ==
    [][/\ SamePathForSameHash
       /\ \A t \in Threads : RunsToolchain(t) => ~art[PathOf(t)].exists
      ]_vars

\* C8 witness: after a call built the artifact, a later call for the same
\* hash got the same path from the cache without running the toolchain.
C8_Witness ==
    \E t \in Threads :
        /\ pc[t] = "lock"
        /\ cached[t]
        /\ toolran[HashOf(t)]
        /\ stages[t] = <<"parse", "generate">>
        /\ lib_path[t] = get_lib_path(HashOf(t))
        /\ art[lib_path[t]].exists

\* C9: no existence check succeeds on, and the loader never opens, an
\* artifact file that is only partly written, and no write to an artifact
\* file starts while the loader holds it open.
C9_ArtifactsNeverMutatedInPlace ==
    [][/\ \A t \in Threads :
             /\ (pc[t] = "compile" /\ pc'[t] = "lock") =>
                    art[PathOf(t)].writers = 0
             /\ (pc[t] = "open" /\ pc'[t] # "open") =>
                    ~(art[lib_path[t]].exists /\ art[lib_path[t]].writers > 0)
       /\ \A p \in Paths :
             art'[p].writers > art[p].writers => \A h \in live : h.path # p
      ]_vars

\* C10: when the artifact file for the template's hash exists as render is
\* entered, the loader is reached without the parser, the generator or the
\* toolchain having run.
C10_CacheHitBypassesStages ==
    \A t \in Threads :
        (cached[t] /\ pc[t] \in {"lock", "open", "invoke"}) =>
            \A i \in DOMAIN stages[t] :
                stages[t][i] \notin {"parse", "generate", "toolchain"}

\* C11: when one of the six exported symbols is missing from the opened
\* library, render_with_response fails with LoadError::Symbol.
C11_MissingSymbolIsSymbolError ==
    (ffi.at = "done" /\ ~(Symbols \subseteq ffi.exports)) =>
        ffi.result = "Symbol"

\* The calls the invocation protocol names, in its order.
ProtocolOrder ==
    <<Call("render", ""), Call("free_string", "body"),
      Call("get_status_code", ""), Call("get_redirect", ""),
      Call("get_cookies", ""), Call("get_headers", "")>>

IsProtocolCall(c) == \E i \in DOMAIN ProtocolOrder : ProtocolOrder[i] = c

IsPrefix(a, b) == Len(a) <= Len(b) /\ a = SubSeq(b, 1, Len(a))

\* C12: within one render_with_response call no artifact function is called
\* before all six symbols are resolved (with a symbol missing none is ever
\* called), and render, free_string(body), get_status_code, get_redirect,
\* get_cookies, get_headers are called in this order, each once, render
\* first; a call that returns Ok has made them all.
C12_InvocationProtocol ==
    /\ ffi.trace # <<>> =>
          /\ ffi.nbound = Len(SymbolOrder)
          /\ Symbols \subseteq ffi.exports
          /\ ffi.trace[1] = Call("render", "")
    /\ IsPrefix(SelectSeq(ffi.trace, IsProtocolCall), ProtocolOrder)
    /\ \A i \in DOMAIN ffi.trace :
          ffi.trace[i].fn \in PointerGetters \cup {"get_status_code"} =>
              \E j \in 1..(i - 1) : ffi.trace[j] = Call("render", "")
    /\ ffi.result = "Ok" => SelectSeq(ffi.trace, IsProtocolCall) = ProtocolOrder

\* C12 witness: a call that made the whole protocol and returned Ok, the
\* redirect getter having returned null and the two others a string.
C12_Witness ==
    /\ ffi.result = "Ok"
    /\ ffi.nulls = {"get_redirect"}
    /\ Len(ffi.trace) = 8

NoStageTwice(st) ==
    \A i, j \in DOMAIN st : st[i] = st[j] => i = j

\* C14: a render call that fails returns the error of the stage that
\* failed and runs no later stage: a parse failure is RspError::Parse, with
\* no file written, no toolchain run and the loader mutex not taken; a
\* compile failure is RspError::Compile, with the loader not entered and the
\* loader map as it was; a loader failure is RspError::Load; and no stage
\* runs twice within a call.
C14_StageErrorsShortCircuit ==
    [][/\ (pc' = pc /\ last' # last) =>
             /\ last'.result.kind = "Parse"
             /\ last'.stages = <<"parse">>
             /\ UNCHANGED <<art, srcfile, project, built, toolran>>
             /\ UNCHANGED <<mutex, libraries, live, tls>>
       /\ \A t \in Threads :
          /\ (pc[t] = "toolchain" /\ pc'[t] = "idle") =>
                /\ last'.result.kind = "Compile"
                /\ last'.stages = <<"parse", "generate", "toolchain">>
                /\ mutex # t
                /\ UNCHANGED <<mutex, libraries, live, tls>>
          /\ (pc[t] \in {"lock", "open"} /\ pc'[t] = "idle") =>
                /\ last'.result.kind = "Load"
                /\ last'.stages[Len(last'.stages)] = "load"
          /\ (pc[t] # "idle" /\ pc'[t] = "idle") =>
                /\ last'.id = req[t].id
                /\ NoStageTwice(last'.stages)
                /\ last'.result.kind \in {"Compile", "Load", "Ok"}
                /\ (last'.result.kind = "Ok") <=> (pc[t] = "invoke")
      ]_vars

\* C14 witness: a call has failed in the toolchain while the loader holds a
\* library another call loaded.
C14_Witness ==
    /\ last.result.kind = "Compile"
    /\ last.stages = <<"parse", "generate", "toolchain">>
    /\ \E p \in Paths : libraries[p] # NoEntry

(* The template language as the specification words it, read off the input
   in one pass from left to right, for comparison with what parse did. *)

\* The index of the '%' of the first '%>' at or after index i, 0 if none.
RECURSIVE FirstClose(_, _)
FirstClose(input, i) ==
    IF i + 1 > Len(input) THEN 0
    ELSE IF input[i] = "%" /\ input[i + 1] = ">" THEN i
    ELSE FirstClose(input, i + 1)

\* Reading the input from index i on, outside any tag: whether an open
\* marker is left without its '%>', the spans <<index of '<', index of the
\* closing '%'>> of the closed tags, and the text that is no part of a tag,
\* '<<' standing for one '<'.
RECURSIVE Read(_, _)
Read(input, i) ==
    IF i > Len(input)
    THEN [unclosed |-> FALSE, spans |-> <<>>, text |-> <<>>]
    ELSE IF i < Len(input) /\ input[i] = "<" /\ input[i + 1] = "<"
    THEN [Read(input, i + 2) EXCEPT !.text = <<"<">> \o @]
    ELSE IF i < Len(input) /\ input[i] = "<" /\ input[i + 1] = "%"
    THEN IF FirstClose(input, i + 2) = 0
         THEN [unclosed |-> TRUE, spans |-> <<>>, text |-> <<>>]
         ELSE [Read(input, FirstClose(input, i + 2) + 2) EXCEPT
                 !.spans = << <<i, FirstClose(input, i + 2)>> >> \o @]
    ELSE [Read(input, i + 1) EXCEPT !.text = <<input[i]>> \o @]

Returned == parser.mode \in {"Ok", "UnclosedTag"}

\* C15: parse terminates on every input (every step consumes input or
\* returns, and a step is possible until it has returned), and it returns
\* UnclosedTag exactly when the input ends inside a tag, that is when an
\* open marker '<%' (its '<' not the second of a '<<') has no '%>' after it.
C15_UnclosedTagExactly ==
    /\ [](Returned =>
            (parser.mode = "UnclosedTag" <=> Read(parser.input, 1).unclosed))
    /\ [](parser.mode \in {"text", "tag"} =>
            /\ parser.pos <= Len(parser.input)
            /\ ENABLED NextParse)
    /\ [][\/ parser'.pos > parser.pos /\ parser'.pos <= Len(parser.input)
          \/ parser'.pos = parser.pos /\ parser'.mode \in {"Ok", "UnclosedTag"}
         ]_vars

\* C15 witness: on '<<<%' parse took the first two '<' as an escape, the
\* third with the '%' as an open marker, and returned UnclosedTag.
C15_Witness ==
    /\ parser.mode = "UnclosedTag"
    /\ parser.input = <<"<", "<", "<", "%">>
    /\ parser.tokens = <<Token("Text", <<"<">>)>>

\* The input holds no tag: reading it finds no open marker.
NoTags(input) ==
    /\ ~Read(input, 1).unclosed
    /\ Read(input, 1).spans = <<>>

\* The string with each '<<', taken from the left, replaced by one '<'.
RECURSIVE Collapse(_)
Collapse(str) ==
    IF str = <<>> THEN <<>>
    ELSE IF Len(str) >= 2 /\ str[1] = "<" /\ str[2] = "<"
    THEN <<"<">> \o Collapse(SubSeq(str, 3, Len(str)))
    ELSE <<str[1]>> \o Collapse(Tail(str))

\* C16 as claimed: for any template that contains no tags, parse emits
\* exactly one Text token whose payload equals the input.
C16_NoTagsOneTextEqualToInput ==
    (parser.mode = "Ok" /\ NoTags(parser.input)) =>
        parser.tokens = <<Token("Text", parser.input)>>

\* C16 as amended: for a template that contains no tags, parse emits no
\* token when the template is empty and otherwise exactly one Text token,
\* whose payload is the input with each '<<' collapsed to one '<': the input
\* itself when it holds no '<<'.
C16_NoTagsOneTextCollapsed ==
    (parser.mode = "Ok" /\ NoTags(parser.input)) =>
        /\ parser.tokens = IF parser.input = <<>> THEN <<>>
                           ELSE <<Token("Text", Collapse(parser.input))>>
        /\ parser.directives = <<>>
        /\ parser.declarations = <<>>
        /\ (parser.input # <<>> /\ Collapse(parser.input) = parser.input) =>
              parser.tokens = <<Token("Text", parser.input)>>

\* C16 witness: parse returned one Text token for a template without tags
\* and without '<<', a lone '<' and a lone '%' in it.
C16_Witness ==
    /\ parser.mode = "Ok"
    /\ parser.input = <<"%", "<", "a">>
    /\ parser.tokens = <<Token("Text", <<"%", "<", "a">>)>>

\* The payloads of the Text tokens, one after the other.
RECURSIVE ConcatText(_)
ConcatText(tokens) ==
    IF tokens = <<>> THEN <<>>
    ELSE (IF Head(tokens).kind = "Text" THEN Head(tokens).payload ELSE <<>>)
         \o ConcatText(Tail(tokens))

\* C17: for every input that parses, the Text payloads concatenated in token
\* order are the input without its tags ('<%' to the next '%>', delimiters
\* included) and with each '<<' outside a tag collapsed to one '<'; every
\* other character, a lone '<' and whitespace too, is kept as it is.
C17_EscapeRoundTrip ==
    parser.mode = "Ok" =>
        ConcatText(parser.tokens) = Read(parser.input, 1).text

\* C17 witness: a blank, a tag, then a lone '<' were parsed into the text
\* ' ' and '<' around the tag's token.
C17_Witness ==
    /\ parser.mode = "Ok"
    /\ Len(parser.tokens) = 3
    /\ parser.tokens[2].kind # "Text"
    /\ ConcatText(parser.tokens) = <<" ", "<">>

IsTag(tok) == tok.kind # "Text"

\* The token variant a selector character stands for.
VariantOf(c) ==
    IF c = "=" THEN "Expression"
    ELSE IF c = "@" THEN "Directive"
    ELSE IF c = "!" THEN "Declaration"
    ELSE "Code"

\* The string without its leading and trailing blanks.
Stripped(str) ==
    LET inked == {i \in DOMAIN str : str[i] # " "}
    IN IF inked = {} THEN <<>>
       ELSE SubSeq(str,
                   CHOOSE i \in inked : \A j \in inked : i <= j,
                   CHOOSE i \in inked : \A j \in inked : j <= i)

\* The token a tag should give: span is <<index of '<', index of the
\* closing '%'>>; the body starts after the selector for '=', '@', '!' and
\* right after '<%' otherwise.
TokenOfSpan(input, span) ==
    LET selector == input[span[1] + 2]
        variant == IF span[1] + 2 = span[2] THEN "Code"
                   ELSE VariantOf(selector)
        from == IF variant = "Code" THEN span[1] + 2 ELSE span[1] + 3
    IN Token(variant, Stripped(SubSeq(input, from, span[2] - 1)))

\* C18: the character right after '<%' selects the token variant ('='
\* Expression, '@' Directive, '!' Declaration, anything else Code, that
\* character then being the first of the body); the selector is no part of
\* the payload, and the payload is the body without its leading and
\* trailing whitespace.
C18_TagClassification ==
    parser.mode = "Ok" =>
        LET tags == SelectSeq(parser.tokens, IsTag)
            spans == Read(parser.input, 1).spans
        IN /\ Len(tags) = Len(spans)
           /\ \A k \in DOMAIN spans :
                 tags[k] = TokenOfSpan(parser.input, spans[k])

\* C18 witness: '<%@ a %><%!b%>' gave Directive 'a' and Declaration 'b'.
C18_Witness ==
    /\ parser.mode = "Ok"
    /\ parser.input =
          <<"<", "%", "@", " ", "a", " ", "%", ">",
            "<", "%", "!", "b", "%", ">">>
    /\ parser.tokens =
          <<Token("Directive", <<"a">>), Token("Declaration", <<"b">>)>>

\* C19: in every successful parse result no Text token has an empty payload
\* and no two Text tokens are next to each other.
C19_TextRunsMaximal ==
    parser.mode = "Ok" =>
        \A i \in DOMAIN parser.tokens :
            parser.tokens[i].kind = "Text" =>
                /\ parser.tokens[i].payload # <<>>
                /\ (i < Len(parser.tokens) =>
                      parser.tokens[i + 1].kind # "Text")

\* C19 witness: text, a tag and text again were parsed into three tokens.
C19_Witness ==
    /\ parser.mode = "Ok"
    /\ parser.tokens =
          <<Token("Text", <<"a">>), Token("Declaration", <<"b">>),
            Token("Text", <<">">>)>>

IsDirective(tok) == tok.kind = "Directive"

IsDeclaration(tok) == tok.kind = "Declaration"

\* The payloads of the tokens, in order.
Payloads(tokens) == [i \in DOMAIN tokens |-> tokens[i].payload]

\* C20: in every successful parse result the directives list is the
\* payloads of the Directive tokens in token order, and the declarations
\* list the payloads of the Declaration tokens in token order.
C20_FlatListsMatchTokens ==
    parser.mode = "Ok" =>
        /\ parser.directives = Payloads(SelectSeq(parser.tokens, IsDirective))
        /\ parser.declarations =
              Payloads(SelectSeq(parser.tokens, IsDeclaration))

\* C20 witness: two directives with different payloads around a
\* declaration.
C20_Witness ==
    /\ parser.mode = "Ok"
    /\ parser.directives = << <<"b">>, <<"a">> >>
    /\ parser.declarations = << <<"b">> >>
    /\ parser.tokens[2].kind = "Declaration"

(* The generator: what the generated source depends on and what its render
   function emits. *)

\* The external crate a lexeme of an import line names, "" if none.
CrateOf(lexeme) ==
    IF lexeme \in {"rsp_runtime::escape_html",
                   "rsp_runtime::{Request, Params, Cookies, Headers, escape_html}"}
    THEN "rsp_runtime"
    ELSE IF lexeme \in {"once_cell", "once_cell::sync::Lazy"}
    THEN "once_cell"
    ELSE ""

ImportedCrates(imports) ==
    {CrateOf(imports[l][i]) : l \in DOMAIN imports, i \in 1..3} \ {""}

EmissionOf(token) ==
    CASE token.kind = "Text" ->
             <<Statement("push_str", escape_string(token.payload))>>
      [] token.kind = "Expression" ->
             <<Statement("format", token.payload)>>
      [] token.kind = "Code" ->
             LET lines == Lines(token.payload)
             IN [i \in DOMAIN lines |-> Statement("code", lines[i])]
      [] OTHER -> <<>>

RECURSIVE EmissionsOf(_)
EmissionsOf(tokens) ==
    IF tokens = <<>> THEN <<>>
    ELSE EmissionOf(Head(tokens)) \o EmissionsOf(Tail(tokens))

RequestConstruction ==
    <<Statement("code", <<"let req = Request::new();">>),
      Statement("code", <<"let _ = &req;">>)>>

\* C22: the render body of the generated source is the optional request
\* construction followed by one emission per Text, Expression and Code
\* token, in the order of the tokens (a Code token's emission being its
\* lines); Directive and Declaration tokens contribute nothing to it.
C22_RenderBodyInSourceOrder ==
    gen.at = "done"
        => \E init \in {<<>>, RequestConstruction} :
               gen.result.source.render
                   = init \o EmissionsOf(gen.parsed.tokens)

\* A declaration, a code block that calls header( and a text run were
\* generated: the body is the request construction, the block, the text.
C22_Witness ==
    /\ gen.at = "done"
    /\ gen.parsed.tokens = <<Token("Declaration", <<"static">>),
                             Token("Code", <<"header(">>),
                             Token("Text", <<"a", "\n">>)>>
    /\ Len(gen.result.source.render) = 4

(* The first invocation of a freshly loaded artifact, read off the calls the
   template made. *)

FirstInvocationDone == wire.at = "done" /\ wire.first

\* The position of the last call among ops, 0 if there is none.
LastCall(calls, ops) ==
    IF \E i \in DOMAIN calls : calls[i].op \in ops
    THEN CHOOSE i \in DOMAIN calls :
             /\ calls[i].op \in ops
             /\ \A j \in (i + 1)..Len(calls) : calls[j].op \notin ops
    ELSE 0

StatusOfCalls(calls) ==
    LET i == LastCall(calls, {"header", "header_url"})
    IN IF i = 0 THEN 200
       ELSE IF calls[i].op = "header" THEN calls[i].n ELSE 302

\* C23 as stated: on the first invocation of a freshly loaded artifact the
\* status is the code of the last header or header_url call (302 for
\* header_url), 200 if there was none, and the redirect is the url of the
\* last header_url call, absent if there was none, a later header call
\* changing the status only.
C23_StatusAndRedirectOfLastCall ==
    FirstInvocationDone
        => LET i == LastCall(wire.calls, {"header_url"})
           IN /\ wire.result.status = StatusOfCalls(wire.calls)
              /\ wire.result.redirect
                     = IF i = 0 THEN <<>> ELSE <<wire.calls[i].s1>>

\* C23 amended: as stated, except that the redirect is also absent when the
\* url of the last header_url call is the empty string.
C23_RedirectAbsentWhenEmpty ==
    FirstInvocationDone
        => LET i == LastCall(wire.calls, {"header_url"})
           IN /\ wire.result.status = StatusOfCalls(wire.calls)
              /\ wire.result.redirect
                     = IF i = 0 \/ wire.calls[i].s1 = "" THEN <<>>
                       ELSE <<wire.calls[i].s1>>

\* header_url("/login") and then header(404): status 404, redirect kept.
C23_Witness ==
    /\ FirstInvocationDone
    /\ wire.calls = <<header_url("/login"), header(404)>>
    /\ wire.result.status = 404
    /\ wire.result.redirect = <<"/login">>

\* The cookie calls of a render, as the triples the spec gives them.
RECURSIVE CookiesOfCalls(_)
CookiesOfCalls(calls) ==
    IF calls = <<>> THEN <<>>
    ELSE LET c == Head(calls)
         IN (CASE c.op = "SetCookie" -> <<<<c.s1, c.s2, c.n>>>>
               [] c.op = "CleanCookie" -> <<<<c.s1, <<>>, -1>>>>
               [] OTHER -> <<>>)
            \o CookiesOfCalls(Tail(calls))

HasNone(str, chars) == \A i \in DOMAIN str : str[i] \notin chars

\* C24: on the first invocation of a freshly loaded artifact the cookie list
\* returned is the sequence of SetCookie / CleanCookie calls in call order,
\* (n, v, a) for SetCookie(n, v, a) and (n, "", -1) for CleanCookie(n),
\* provided no name or value holds a tab or a newline; it is empty when no
\* such call was made.
C24_CookiesInCallOrder ==
    LET expected == CookiesOfCalls(wire.calls)
    IN (/\ FirstInvocationDone
        /\ \A i \in DOMAIN expected :
               /\ HasNone(expected[i][1], {"\t", "\n"})
               /\ HasNone(expected[i][2], {"\t", "\n"}))
           => wire.result.cookies = expected

\* A cookie set and a cookie cleaned came back as two triples.
C24_Witness ==
    /\ FirstInvocationDone
    /\ wire.calls = <<SetCookie(<<"a">>, <<"b", ":">>, 3600),
                      CleanCookie(<<"a", ":">>)>>
    /\ wire.result.cookies = <<<<<<"a">>, <<"b", ":">>, 3600>>,
                               <<<<"a", ":">>, <<>>, -1>>>>

CookiesRoundTrip ==
    (\A i \in DOMAIN wire.cells.cookies :
         /\ HasNone(wire.cells.cookies[i][1], {"\t", "\n"})
         /\ HasNone(wire.cells.cookies[i][2], {"\t", "\n"}))
        => wire.result.cookies = wire.cells.cookies

\* C25 as stated: whatever cookie list the cells hold, the loader reads the
\* same list back from the artifact's text if no name or value holds a tab
\* or a newline, and whatever header list they hold, it reads the same list
\* back if no value holds a newline.
C25_WireRoundTrip ==
    wire.at = "done"
        => /\ CookiesRoundTrip
           /\ (\A i \in DOMAIN wire.cells.headers :
                   HasNone(wire.cells.headers[i][2], {"\n"}))
                  => wire.result.headers = wire.cells.headers

\* C25 amended: as stated, for header lists whose names hold neither a colon
\* nor a newline and whose values hold no newline.
C25_WireRoundTripPlainNames ==
    wire.at = "done"
        => /\ CookiesRoundTrip
           /\ (\A i \in DOMAIN wire.cells.headers :
                   /\ HasNone(wire.cells.headers[i][1], {":", "\n"})
                   /\ HasNone(wire.cells.headers[i][2], {"\n"}))
                  => wire.result.headers = wire.cells.headers

\* A header whose value holds a colon and a cookie went through the text
\* and came back as they were.
C25_Witness ==
    /\ wire.at = "done"
    /\ wire.cells.headers = <<<<<<"a">>, <<"b", ":">>>>>>
    /\ wire.result.headers = wire.cells.headers
    /\ wire.headers_text = <<"a", ":", "b", ":">>
    /\ wire.cells.cookies # <<>>
    /\ wire.result.cookies = wire.cells.cookies

\* C26: Request::ip returns the trimmed first comma-separated entry of
\* x-forwarded-for when that header is present, and the value of x-real-ip
\* when x-forwarded-for is absent.
C26_IpFallsBackToRealIp ==
    ip.at = "done"
        => ip.result
               = IF ip.ua["x-forwarded-for"] # <<>>
                 THEN LET v == ip.ua["x-forwarded-for"][1]
                          first == IF \E i \in DOMAIN v : v[i] = ","
                                   THEN SubSeq(v, 1,
                                            (CHOOSE i \in DOMAIN v :
                                                /\ v[i] = ","
                                                /\ \A j \in 1..(i - 1) :
                                                       v[j] # ",") - 1)
                                   ELSE v
                      IN TrimEnd(TrimStart(first))
                 ELSE IF ip.ua["x-real-ip"] # <<>>
                      THEN ip.ua["x-real-ip"][1]
                      ELSE <<>>

\* C27: across any register_cleanup calls, concurrent or not, with the same
\* or different engines, the interrupt handler is installed at most once,
\* the engine it unloads is the one passed by the call that won the
\* compare-and-swap, and a call that lost it changes neither the flag, nor
\* the stored engine, nor the handler.
C27_CleanupRegisteredOnce ==
    /\ [](/\ cleanup.handlers <= 1
          /\ cleanup.engine \in {"", cleanup.winner}
          /\ cleanup.exited => cleanup.unloaded = cleanup.winner)
    /\ [][\A t \in Threads :
              (/\ cleanup.caller[t].at = "cas"
               /\ cleanup'.caller[t].at = "idle")
                  => /\ cleanup'.registered = cleanup.registered
                     /\ cleanup'.engine = cleanup.engine
                     /\ cleanup'.handlers = cleanup.handlers
                     /\ cleanup'.winner = cleanup.winner]_vars

\* Two calls with different engines were made; the interrupt unloaded the
\* engine of the one that won, e2, the call with e1 having returned.
C27_Witness ==
    /\ cleanup.exited
    /\ cleanup.unloaded = "e2"
    /\ cleanup.handlers = 1
    /\ \E t \in Threads :
           cleanup.caller[t] = [at |-> "idle", engine |-> "e1"]

\* C28: unload_all leaves the loader map empty with every handle dropped (a
\* step that changes the map while no thread moves and no file changes is
\* an unload_all), and a render_with_response that then finds no entry for
\* its path opens the library afresh, whatever the file's mtime.
C28_UnloadAllEmptiesTheMap ==
    /\ [][(pc' = pc /\ art' = art /\ libraries' # libraries)
              => /\ \A p \in Paths : libraries'[p] = NoEntry
                 /\ live' = {}]_vars
    /\ [][\A t \in Threads :
              (/\ pc[t] = "lock"
               /\ pc'[t] # "lock"
               /\ art[lib_path[t]].exists
               /\ libraries[lib_path[t]] = NoEntry)
                  => /\ pc'[t] = "open"
                     /\ decision'[t] = "absent"]_vars

\* A template was rendered, the engine was unloaded, and the next render of
\* the same template is about to open the library again although nothing
\* touched the file.
C28_Witness ==
    /\ ntouch = 0
    /\ live = {}
    /\ last.result.kind = "Ok"
    /\ "load" \in {last.stages[i] : i \in DOMAIN last.stages}
    /\ \E t \in Threads :
           /\ pc[t] = "open"
           /\ decision[t] = "absent"
           /\ cached[t]
           /\ req[t].file = last.file

\* C29: when the file an include names does not exist (at the path the
\* docroot and the argument are joined to), RspEngine::include returns Ok
\* with an HTML comment naming the argument, and it has not read, parsed or
\* compiled anything nor taken the loader mutex.
C29_MissingIncludeIsAComment ==
    (inc.at = "done" /\ inc.entry = "missing")
        => /\ inc.result.kind = "Ok"
           /\ Len(inc.result.content) = 3
           /\ inc.result.content[2] = inc.relative_path
           /\ inc.used \subseteq {"docroot mutex"}

\* sub/b.rsp was not there under www/site: the comment names sub/b.rsp.
C29_Witness ==
    /\ inc.at = "done"
    /\ inc.entry = "missing"
    /\ inc.full_path = <<"www", "site", "sub", "b.rsp">>
    /\ inc.result = [kind |-> "Ok",
                     content |-> <<"<!-- Include error: ",
                                   <<"sub", "b.rsp">>, " not found -->">>]

HasClose(str) ==
    \E i \in 1..(Len(str) - 1) : str[i] = "%" /\ str[i + 1] = ">"

\* C30: a tag ends at the first '%>' after its open marker: the body read so
\* far and the payload of every tag token never hold '%>'; inside a tag a
\* '%' that '>' does not follow is appended to the body like any other
\* character, and '%>' pushes the body, trimmed, as the tag's token and puts
\* the parser back in text mode right after the '>'.
C30_TagEndsAtFirstClose ==
    /\ [](/\ ~HasClose(parser.code_buf)
          /\ \A i \in DOMAIN parser.tokens :
                 parser.tokens[i].kind # "Text"
                     => ~HasClose(parser.tokens[i].payload))
    /\ [][(parser.mode = "tag" /\ parser.pos < Len(parser.input))
              => LET ch == parser.input[parser.pos + 1]
                     closes == /\ ch = "%"
                               /\ parser.pos + 2 <= Len(parser.input)
                               /\ parser.input[parser.pos + 2] = ">"
                 IN IF closes
                    THEN /\ parser'.mode = "text"
                         /\ parser'.pos = parser.pos + 2
                         /\ parser'.text_buf = <<>>
                         /\ Len(parser'.tokens) = Len(parser.tokens) + 1
                         /\ parser'.tokens[Len(parser'.tokens)].payload
                                = TrimEnd(TrimStart(parser.code_buf))
                    ELSE /\ parser'.mode = "tag"
                         /\ parser'.pos = parser.pos + 1
                         /\ parser'.code_buf = Append(parser.code_buf, ch)
                         /\ parser'.tokens = parser.tokens]_vars

\* `<%%%>` was parsed: the first '%' after the marker is the body, the
\* second closes the tag.
C30_Witness ==
    /\ parser.mode = "Ok"
    /\ parser.input = <<"<", "%", "%", "%", ">">>
    /\ parser.tokens = <<Token("Code", <<"%">>)>>

\* The string a double-quoted literal of the target language denotes, read
\* by its rules: a backslash and the character after it are one escape, any
\* other character stands for itself, an unescaped '"' or an unknown escape
\* is not part of a literal.
RECURSIVE ReadLiteral(_)
ReadLiteral(body) ==
    IF body = <<>> THEN [ok |-> TRUE, value |-> <<>>]
    ELSE IF Head(body) = "\""
    THEN [ok |-> FALSE, value |-> <<>>]
    ELSE IF Head(body) # "\\"
    THEN LET rest == ReadLiteral(Tail(body))
         IN [ok |-> rest.ok, value |-> <<Head(body)>> \o rest.value]
    ELSE IF Len(body) < 2 \/ body[2] \notin {"\\", "\"", "n", "r", "t"}
    THEN [ok |-> FALSE, value |-> <<>>]
    ELSE LET rest == ReadLiteral(Tail(Tail(body)))
             c == CASE body[2] = "\\" -> "\\"
                    [] body[2] = "\"" -> "\""
                    [] body[2] = "n" -> "\n"
                    [] body[2] = "r" -> "\r"
                    [] body[2] = "t" -> "\t"
         IN [ok |-> rest.ok, value |-> <<c>> \o rest.value]

\* C31: for every Text payload s, the literal the generator emits for it is
\* a well-formed string literal of the target language that denotes exactly
\* s.
C31_TextLiteralDenotesPayload ==
    gen.at = "done"
        => \A i \in DOMAIN gen.parsed.tokens :
               gen.parsed.tokens[i].kind = "Text"
                   => \E j \in DOMAIN gen.result.source.render :
                          LET st == gen.result.source.render[j]
                          IN /\ st.form = "push_str"
                             /\ ReadLiteral(st.arg)
                                    = [ok |-> TRUE,
                                       value |-> gen.parsed.tokens[i].payload]

\* The payload backslash, 'n', newline was emitted as an escaped backslash,
\* 'n' and an escaped newline.
C31_Witness ==
    /\ gen.at = "done"
    /\ gen.parsed.tokens = <<Token("Text", <<"\\", "n", "\n">>)>>
    /\ gen.result.source.render[1].arg = <<"\\", "\\", "n", "\\", "n">>

\* C32: a render_with_response call that fails to open the library leaves
\* no entry and no open handle for its path; a call that fails at the stat
\* leaves the map and the handles as they were; and every call that gets
\* past the stat has read the file's mtime anew and goes on to open the
\* library exactly when the map has no entry for the path or the entry's
\* mtime differs.
C32_LoadFailuresAreRetried ==
    [][\A t \in Threads :
          LET p == lib_path[t]
          IN /\ (pc[t] = "open" /\ pc'[t] = "idle")
                    => /\ libraries'[p] = NoEntry
                       /\ \A h \in live' : h.path # p
             /\ (pc[t] = "lock" /\ pc'[t] = "idle")
                    => /\ libraries' = libraries
                       /\ live' = live
             /\ (pc[t] = "lock" /\ pc'[t] \notin {"lock", "idle"})
                    => /\ modified'[t] = art[p].mtime
                       /\ pc'[t] = "open"
                              <=> (\/ libraries[p] = NoEntry
                                   \/ libraries[p].modified # art[p].mtime)]_vars

\* A call failed to open the library of a template and the next call for the
\* same template, finding no entry, is about to open it.
C32_Witness ==
    /\ last.result.kind = "Load"
    /\ last.result.detail = "Load"
    /\ \E t \in Threads :
           /\ pc[t] = "open"
           /\ req[t].file = last.file
           /\ decision[t] = "absent"
           /\ libraries[lib_path[t]] = NoEntry

\* C33: whenever compile or compile_with_options returns Ok(path), a file
\* exists at that path.
C33_CompileOkMeansFileExists ==
    [][\A t \in Threads :
          (pc[t] \in {"compile", "toolchain", "writing"} /\ pc'[t] = "lock")
              => art'[lib_path'[t]].exists]_vars

\* C34: for requests handled one after another, the header map the template
\* sees for a request holds exactly the headers that request sent.
C34_HeadersAreThoseOfTheRequest ==
    (hdr.at = "idle" /\ hdr.nreq > 0) => hdr.seen = hdr.inbound

(* ---------------------- string ownership, C36 -------------------------- *)

\* The positions of ffi.mem where the loader does op on the pointer that the
\* function p returned.
MemAt(op, p) == {i \in DOMAIN ffi.mem : ffi.mem[i] = Mem(op, p)}

\* C36: every non-null pointer that render, get_redirect, get_cookies or
\* get_headers returned is handed to free_string exactly once, after it was
\* returned and its bytes were copied, and is never read after that; this
\* holds for a non-null empty redirect too, which is reported as absent; a
\* null pointer returned by a getter is neither read nor freed.
C36_StringsFreedExactlyOnce ==
    /\ \A p \in PointerGetters \cup {"render"} :
          /\ MemAt("ret", p) # {} =>
                /\ Cardinality(MemAt("ret", p)) = 1
                /\ Cardinality(MemAt("free", p)) = 1
                /\ MemAt("read", p) # {}
                /\ \A f \in MemAt("free", p) :
                      /\ \A r \in MemAt("ret", p) : r < f
                      /\ \A r \in MemAt("read", p) : r < f
                /\ \A r \in MemAt("ret", p), c \in MemAt("read", p) : r < c
          /\ MemAt("ret", p) = {} =>
                MemAt("read", p) = {} /\ MemAt("free", p) = {}
          /\ MemAt("null", p) # {} => MemAt("ret", p) = {}
    /\ ffi.redirect = "None" /\ "get_redirect" \notin ffi.nulls =>
          /\ "get_redirect" \in ffi.empty
          /\ Cardinality(MemAt("free", "get_redirect")) = 1
    /\ ffi.redirect = "Some" =>
          "get_redirect" \notin ffi.nulls \cup ffi.empty
    /\ ffi.result = "Ok" =>
          /\ MemAt("ret", "render") # {}
          /\ \A g \in PointerGetters :
                IF g \in ffi.nulls THEN MemAt("null", g) # {}
                                   ELSE MemAt("ret", g) # {}

\* C36 witness: a call that returned Ok after get_redirect returned a
\* non-null empty string, which was freed and reported as absent,
\* get_cookies returned null and get_headers a string.
C36_Witness ==
    /\ ffi.result = "Ok"
    /\ ffi.nulls = {"get_cookies"}
    /\ ffi.empty = {"get_redirect"}
    /\ ffi.redirect = "None"
    /\ MemAt("free", "get_redirect") # {}
    /\ MemAt("free", "get_cookies") = {}
    /\ MemAt("free", "get_headers") # {}

(* ------------------- frame of render_with_response, C37 ---------------- *)

\* The step is one of thread t's call render_with_response(lib_path[t]).
LoaderStepOf(t) == pc[t] \in {"lock", "open", "invoke"} /\ pc'[t] # pc[t]

C38_InitializerRunsOncePerKey ==
    /\ \A k \in StateKeys : gstate.runs[k] <= 1
    /\ \A t \in Threads :
          (gstate.at[t] = "idle" /\ gstate.ret[t] # 0) =>
              gstate.ret[t] = gstate.data[gstate.key[t]]
    /\ \A t, u \in Threads :
          (/\ gstate.at[t] = "idle" /\ gstate.ret[t] # 0
           /\ gstate.at[u] = "idle" /\ gstate.ret[u] # 0
           /\ gstate.key[t] = gstate.key[u]) => gstate.ret[t] = gstate.ret[u]

(* ------------------ no unload during an invocation, C35 ---------------- *)

====
